---- MODULE Spec2Model ----
(***************************************************************************)
(* A model of the tool protocol gateway of rca_app: the SSE client         *)
(* McpSseClient of mcp_client.py (receive loop, request/response           *)
(* correlation through the _responses map, the initialize flag, result     *)
(* unwrapping) and the schema translator _schema_to_pydantic.              *)
(*                                                                         *)
(* Caller threads run list_tools() and call_tool(); both go through        *)
(* request().  A step of a caller is one access to the client's shared     *)
(* state (or one network call); the code between two such accesses is      *)
(* local to the thread.  Receive-loop threads dispatch one event per step. *)
(* uuid4 request ids are modelled as fresh tokens 1, 2, 3, ...             *)
(***************************************************************************)
EXTENDS Integers, Sequences, FiniteSets, TLC

\* ------------------------------------------------------------------ bounds

MaxOps == 2
MaxSeqOps == 3
MaxEvents == 2
MaxTextLen == 3
MaxRequired == 2
MaxTools == 2
MaxRegisterTool == 2
MaxRegs == 3
MaxCloses == 2

\* the threads that call into one client
Callers == {"t1", "t2"}
MaxIds == 2 * (MaxOps + MaxSeqOps)
\* an id the client never generates (a response nobody asked for)
ForeignId == MaxIds + 1

\* ------------------------------------------------------------------ values

NoUrl == ""
DefaultMessagesUrl == "/messages"
AnnouncedUrls == {"/messages?session=a"}
\* the urls of a server that announces its endpoint again
ReannouncedUrls == AnnouncedUrls \cup {"/messages?session=b"}

ErrAbsent == "absent"
ErrNoMessage == "nomessage"
ErrMessages == {"boom"}
UnknownMcpError == "Unknown MCP error"

\* results a server puts into a response: the "content" of a result object
\* is absent, or a list of items whose "text" is a string of characters
\* (a text is the sequence of its characters)
NoContent == [kind |-> "absent", items |-> <<>>]
ContentOf(items) == [kind |-> "list", items |-> items]
\* a "content" that is no list: a true value (a dict, a string) or a false one
OtherContent(truth) == [kind |-> IF truth THEN "true" ELSE "false", items |-> <<>>]
\* an item of the list: a dict with a string under "text", a dict with another
\* value or nothing under "text", or no dict at all
TextItem(chars) == [kind |-> "dict", isstr |-> TRUE, text |-> chars]
OtherItem == [kind |-> "dict", isstr |-> FALSE, text |-> <<>>]
BareItem == [kind |-> "other", isstr |-> FALSE, text |-> <<>>]
ResultObj(content) == [content |-> content]
EmptyResult == ResultObj(NoContent)

ResAbsent == [present |-> FALSE, obj |-> EmptyResult]
ResOf(obj) == [present |-> TRUE, obj |-> obj]

ClientResults == {ResultObj(ContentOf(<<TextItem(<<"1">>)>>))}

\* the body of one server-sent event after json.loads
\* (url and id are what payload.get gives, NoUrl and 0 standing for None and
\* every other false value; urlKey and idKey tell whether the body has the key)
TextEvent ==
    [kind |-> "text", url |-> NoUrl, id |-> 0, err |-> ErrAbsent, res |-> ResAbsent,
     urlKey |-> FALSE, idKey |-> FALSE]
ArrayEvent ==
    [kind |-> "array", url |-> NoUrl, id |-> 0, err |-> ErrAbsent, res |-> ResAbsent,
     urlKey |-> FALSE, idKey |-> FALSE]
\* an object with the keys uk and ik tell it to have
KeyedEvent(uk, u, ik, i, e, r) ==
    [kind |-> "object", url |-> u, id |-> i, err |-> e, res |-> r, urlKey |-> uk, idKey |-> ik]
\* an object that has no key with a false value
ObjEvent(u, i, e, r) == KeyedEvent(u # NoUrl, u, i # 0, i, e, r)
NoResponse ==
    [kind |-> "none", url |-> NoUrl, id |-> 0, err |-> ErrAbsent, res |-> ResAbsent,
     urlKey |-> FALSE, idKey |-> FALSE]


VARIABLES
    messages_url,   \* self._messages_url
    thread,         \* self._thread: "none", or the last Thread made: "created", "alive" or "dead"
    orphans,        \* running receive threads self._thread no longer refers to
    responses,      \* self._responses: request id -> payload
    initialized,    \* self._initialized
    pc,             \* where each caller thread is
    op,             \* the api call a caller is in
    method,         \* request()'s method argument
    rid,            \* request()'s request_id
    resp,           \* request()'s local response
    outcome,        \* how the request() the caller finished last ended
    nextId,         \* next fresh request id
    posted,         \* envelopes the server received
    eventsLeft,     \* events the server still sends
    initOk,         \* initialize requests that returned a result
    active,         \* the caller threads that use the client
    opsLeft,        \* api calls each caller still makes
    uresult,        \* call_tool: the result request("tools/call") returned
    uret,           \* call_tool: the value returned
    ustage,         \* call_tool: "called", then "returned"
    schema,         \* _schema_to_pydantic: the schema argument
    contract,       \* _schema_to_pydantic: the fields of the model returned
    sstage,         \* _schema_to_pydantic: "called", then "returned"
    t_tools,        \* Toolset.tools
    t_lookup,       \* Toolset._tool_lookup
    t_log,          \* the warnings the last call on the Toolset logged
    t_raised,       \* the last call on the Toolset raised
    t_stage,        \* "idle", then "built" once a Toolset is constructed
    t_calls,        \* register_tool calls made on the Toolset
    r_toolsets,     \* ToolsetRegistry._toolsets
    r_tools,        \* ToolsetRegistry._tools
    r_log,          \* the warnings the last register call logged
    registered,     \* the toolsets passed to register, in call order
    stop_event,     \* self._stop_event is set
    cpc,            \* where the thread that calls close() is
    closesLeft,     \* close() calls still made
    closed,         \* close() calls that have returned
    close_raised,   \* a close() call has raised
    e_stage,        \* publisher and builder: "idle", "published", "listed", "built", "invoked"
    e_published,    \* the handlers _register_langchain_tool registered with the server
    e_listed,       \* the tool descriptors list_tools returned
    e_built,        \* the tools of the Toolset build_mcp_toolset returned
    e_args,         \* the arguments a remote tool was invoked with
    e_result,       \* what that invocation returned or raised
    e_call,         \* the tools/call that invocation made call_tool send
    cond_owner,     \* the thread that holds the lock of self._response_event, or "free"
    lk_pc,          \* where each caller is in request(), lines 108-110
    lk_hpc,         \* where the receive thread is in _handle_event, lines 94-96
    lk_hid,         \* _handle_event's message_id
    lk_responses,   \* the keys of self._responses
    lk_timed,       \* the 30 s of a caller's wait_for have passed
    lk_got,         \* the response a caller's pop returned is not None
    lk_early,       \* a caller's response was stored before the caller took the lock
    lk_events,      \* events the server still sends
    r_raised,       \* the exception ToolsetRegistry(toolsets) raised, or NoRaise
    a_stage,        \* build_agents: "idle", "constructed" (line 855), "found" (line 859)
    a_given,        \* the toolsets ToolsetRegistry was constructed from
    a_promo,        \* build_agents' promo_tool
    p_stage,        \* process_response: "idle", "attempt", "repair", "returned", "raised"
    p_content,      \* process_response's response_content
    p_llm,          \* an llm was given
    p_attempt,      \* the loop variable attempt
    p_parses,       \* runs of the try block so far
    p_repairs,      \* llm.invoke calls so far
    p_result        \* what process_response returned or raised

vars == <<messages_url, thread, orphans, responses, initialized, pc, op,
          method, rid, resp, outcome, nextId, posted, eventsLeft, initOk, active, opsLeft,
          uresult, uret, ustage, schema, contract, sstage,
          t_tools, t_lookup, t_log, t_raised, t_stage, t_calls,
          r_toolsets, r_tools, r_log, registered,
          stop_event, cpc, closesLeft, closed, close_raised,
          e_stage, e_published, e_listed, e_built, e_args, e_result, e_call,
          cond_owner, lk_pc, lk_hpc, lk_hid, lk_responses, lk_timed, lk_got, lk_early,
          lk_events, r_raised, a_stage, a_given, a_promo,
          p_stage, p_content, p_llm, p_attempt, p_parses, p_repairs, p_result>>

unwrapVars == <<uresult, uret, ustage>>
schemaVars == <<schema, contract, sstage>>
toolsetVars == <<t_tools, t_lookup, t_log, t_raised, t_stage, t_calls>>
registryVars == <<r_toolsets, r_tools, r_log, registered>>
closeVars == <<stop_event, cpc, closesLeft, closed, close_raised>>
e2eVars == <<e_stage, e_published, e_listed, e_built, e_args, e_result, e_call>>
lockVars == <<cond_owner, lk_pc, lk_hpc, lk_hid, lk_responses, lk_timed, lk_got, lk_early,
              lk_events>>
agentVars == <<r_raised, a_stage, a_given, a_promo>>
processVars == <<p_stage, p_content, p_llm, p_attempt, p_parses, p_repairs, p_result>>
laterVars == <<lockVars, agentVars, processVars>>
others == <<active, unwrapVars, schemaVars, toolsetVars, registryVars, closeVars, e2eVars,
            laterVars>>

clientVars == <<messages_url, thread, orphans, responses, initialized>>
callerVars == <<pc, op, method, rid, resp, outcome>>

\* ------------------------------------------------------------------ json.loads

\* the characters of the texts: a digit, a letter, the double quote, braces,
\* the colon and the blank.  The JSON texts over them are the numbers 1, 11, ...,
\* the strings, {} and the objects of one member, with blanks between the tokens;
\* the parser reads the other digits too
Quote == "\""
Alphabet == {"1", "x", Quote, "{", "}", ":", " "}

JNone == [t |-> "none", n |-> 0, s |-> <<>>, m |-> <<>>]
JNum(n) == [t |-> "num", n |-> n, s |-> <<>>, m |-> <<>>]
JStr(s) == [t |-> "str", n |-> 0, s |-> s, m |-> <<>>]
JObj(m) == [t |-> "obj", n |-> 0, s |-> <<>>, m |-> m]
Member(k, v) == [k |-> k, v |-> v]

ParseFail == [ok |-> FALSE, val |-> JNone, next |-> 0]
Parsed(v, i) == [ok |-> TRUE, val |-> v, next |-> i]

RECURSIVE SkipWs(_, _)
SkipWs(t, i) == IF i <= Len(t) /\ t[i] = " " THEN SkipWs(t, i + 1) ELSE i

DigitChars == {"0", "1", "2", "3", "4", "5", "6", "7", "8", "9"}
DigitValue(ch) ==
    CASE ch = "0" -> 0 [] ch = "1" -> 1 [] ch = "2" -> 2 [] ch = "3" -> 3 [] ch = "4" -> 4
      [] ch = "5" -> 5 [] ch = "6" -> 6 [] ch = "7" -> 7 [] ch = "8" -> 8 [] ch = "9" -> 9

\* the end of the number that starts at i: a 0 stands alone
RECURSIVE DigitsEnd(_, _)
DigitsEnd(t, i) == IF i <= Len(t) /\ t[i] \in DigitChars THEN DigitsEnd(t, i + 1) ELSE i
NumberEnd(t, i) == IF t[i] = "0" THEN i + 1 ELSE DigitsEnd(t, i)

\* the number written by the digits t[i], ..., t[j - 1]
RECURSIVE Decimal(_, _, _)
Decimal(t, i, j) == IF j <= i THEN 0 ELSE 10 * Decimal(t, i, j - 1) + DigitValue(t[j - 1])

\* the place of the next double quote at or after i, or 0
RECURSIVE ClosingQuote(_, _)
ClosingQuote(t, i) ==
    IF i > Len(t) THEN 0 ELSE IF t[i] = Quote THEN i ELSE ClosingQuote(t, i + 1)

\* a string that opens at i
ParseString(t, i) ==
    LET j == ClosingQuote(t, i + 1)
    IN  IF j = 0 THEN ParseFail ELSE Parsed(JStr(SubSeq(t, i + 1, j - 1)), j + 1)

RECURSIVE ParseValue(_, _)
\* an object that opens at i
ParseObject(t, i) ==
    LET a == SkipWs(t, i + 1)
    IN  IF a > Len(t) THEN ParseFail
        ELSE IF t[a] = "}" THEN Parsed(JObj(<<>>), a + 1)
        ELSE IF t[a] # Quote THEN ParseFail
        ELSE LET key == ParseString(t, a)
                 b == SkipWs(t, key.next)
             IN  IF ~key.ok \/ b > Len(t) THEN ParseFail
                 ELSE IF t[b] # ":" THEN ParseFail
                 ELSE LET v == ParseValue(t, SkipWs(t, b + 1))
                          e == SkipWs(t, v.next)
                      IN  IF ~v.ok \/ e > Len(t) THEN ParseFail
                          ELSE IF t[e] # "}" THEN ParseFail
                          ELSE Parsed(JObj(<<Member(key.val.s, v.val)>>), e + 1)

\* a value that starts at i
ParseValue(t, i) ==
    IF i > Len(t) THEN ParseFail
    ELSE IF t[i] \in DigitChars
      THEN LET j == NumberEnd(t, i) IN Parsed(JNum(Decimal(t, i, j)), j)
    ELSE IF t[i] = Quote THEN ParseString(t, i)
    ELSE IF t[i] = "{" THEN ParseObject(t, i)
    ELSE ParseFail

\* json.loads(text): one value with blanks around it and nothing after it,
\* otherwise JSONDecodeError (ok is FALSE)
JsonLoads(t) ==
    LET v == ParseValue(t, SkipWs(t, 1))
    IN  IF v.ok /\ SkipWs(t, v.next) > Len(t) THEN v ELSE ParseFail

\* ------------------------------------------------------------------ call_tool

\* what call_tool gives back: the decoded value, the text, the result object,
\* or the AttributeError of content[0].get on an item that is no dict
NoReturn == [tag |-> "none", json |-> JNone, text |-> <<>>, obj |-> EmptyResult]
RetJson(v) == [tag |-> "json", json |-> v, text |-> <<>>, obj |-> EmptyResult]
RetText(t) == [tag |-> "text", json |-> JNone, text |-> t, obj |-> EmptyResult]
RetResult(r) == [tag |-> "result", json |-> JNone, text |-> <<>>, obj |-> r]
RetRaise == [tag |-> "raise", json |-> JNone, text |-> <<>>, obj |-> EmptyResult]

\* call_tool without json.loads: the text is returned as it is
UnwrapResultNoParse(result) ==
    LET content == result.content
    IN  IF content.kind = "list" /\ content.items # <<>>
          THEN LET first == content.items[1]
               IN  IF first.kind # "dict" THEN RetRaise
                   ELSE IF first.isstr THEN RetText(first.text)
                   ELSE RetResult(result)
          ELSE RetResult(result)

\* call_tool, after request() returned result
UnwrapResult(result) ==
    LET content == result.content
    IN  IF content.kind = "list" /\ content.items # <<>>
          THEN LET first == content.items[1]
               IN  IF first.kind # "dict" THEN RetRaise
                   ELSE IF first.isstr
                     THEN LET j == JsonLoads(first.text)
                          IN  IF j.ok THEN RetJson(j.val) ELSE RetText(first.text)
                   ELSE RetResult(result)
          ELSE RetResult(result)

\* list_tools gives back the list under "tools" ([] without one)
RetTools == [tag |-> "tools", json |-> JNone, text |-> <<>>, obj |-> EmptyResult]

\* how a request() ended: by a result (val), by the RuntimeError of an error
\* envelope or by TimeoutError (msg), or by the exception of the post; ret is
\* what the api call gave back when the request() was its last
NoOutcome == [kind |-> "none", msg |-> "", val |-> EmptyResult, ret |-> NoReturn]
Outcome(k, msg, v) == [kind |-> k, msg |-> msg, val |-> v, ret |-> NoReturn]
Returned(v, r) == [kind |-> "result", msg |-> "", val |-> v, ret |-> r]

\* the sequences over S of length n at most
SeqsUpTo(S, n) == UNION {[1..k -> S] : k \in 0..n}

\* {"x":1} and {"x": {"x":"1"}}, and a text that is no JSON
SampleTexts ==
    { <<"{", Quote, "x", Quote, ":", "1", "}">>,
      <<"{", Quote, "x", Quote, ":", " ", "{", Quote, "x", Quote, ":", Quote, "1", Quote, "}", "}">>,
      <<"x", "x", "x", " ", "x", "x">> }
Texts == SeqsUpTo(Alphabet, MaxTextLen) \cup SampleTexts

\* the result objects call_tool is tried on
FirstItems == {TextItem(t) : t \in Texts} \cup {OtherItem, BareItem}
UnwrapInputs ==
    {ResultObj(NoContent), ResultObj(OtherContent(TRUE)), ResultObj(OtherContent(FALSE)),
     ResultObj(ContentOf(<<>>))}
        \cup {ResultObj(ContentOf(<<it>> \o rest)) :
                it \in FirstItems, rest \in {<<>>, <<TextItem(<<"1">>)>>}}

\* call_tool returns
CallToolReturn ==
    /\ ustage = "called"
    /\ uret' = UnwrapResult(uresult)
    /\ ustage' = "returned"
    /\ UNCHANGED <<clientVars, callerVars, nextId, posted, eventsLeft, initOk, active, opsLeft, laterVars,
                   uresult, schemaVars, toolsetVars, registryVars, closeVars, e2eVars>>

\* ------------------------------------------------------------------ _schema_to_pydantic

KnownTypes == {"string", "integer", "number", "boolean", "array", "object"}
\* a property schema without "type", and a type name that is none of the six
TypeMissing == "<missing>"
TypeDecls == KnownTypes \cup {TypeMissing, "null"}
PropNames == {"a", "b"}
RequiredNames == PropNames \cup {"c"}

Ellipsis == "..."
NoneDefault == "None"

Range(f) == {f[i] : i \in DOMAIN f}

\* number mapped to int
FieldTypeNumberAsInt(decl) ==
    LET t == IF decl = TypeMissing THEN "string" ELSE decl
    IN  CASE t = "string" -> "str"
          [] t = "integer" -> "int"
          [] t = "number" -> "int"
          [] t = "boolean" -> "bool"
          [] t = "array" -> "list"
          [] t = "object" -> "dict"
          [] OTHER -> "Any"

\* the dict lookup of lines 23-30, with prop_schema.get("type", "string")
FieldType(decl) ==
    LET t == IF decl = TypeMissing THEN "string" ELSE decl
    IN  CASE t = "string" -> "str"
          [] t = "integer" -> "int"
          [] t = "number" -> "float"
          [] t = "boolean" -> "bool"
          [] t = "array" -> "list"
          [] t = "object" -> "dict"
          [] OTHER -> "Any"

\* ... if prop_name in required else None
FieldDefault(name, required) == IF name \in required THEN Ellipsis ELSE NoneDefault

\* create_model: a field whose default is ... is required, any other default
\* makes it optional
CreateModel(fields) ==
    [p \in DOMAIN fields |->
        [type |-> fields[p].type,
         required |-> fields[p].default = Ellipsis,
         default |-> fields[p].default]]

\* _schema_to_pydantic(name, schema)
SchemaToPydantic(sch) ==
    LET properties == sch.properties
        required == Range(sch.required)
        fields == [p \in DOMAIN properties |->
                      [type |-> FieldType(properties[p]),
                       default |-> FieldDefault(p, required)]]
    IN  CreateModel(fields)

\* a schema: "properties" (none is {}) and the "required" list (none is [])
NoSchema == [properties |-> <<>>, required |-> <<>>]
Schemas ==
    {[properties |-> ps, required |-> rq] :
        ps \in UNION {[names -> TypeDecls] : names \in SUBSET PropNames},
        rq \in SeqsUpTo(RequiredNames, MaxRequired)}

\* _schema_to_pydantic returns
SchemaTranslate ==
    /\ sstage = "called"
    /\ contract' = SchemaToPydantic(schema)
    /\ sstage' = "returned"
    /\ UNCHANGED <<clientVars, callerVars, nextId, posted, eventsLeft, initOk, active, opsLeft, laterVars,
                   unwrapVars, schema, toolsetVars, registryVars, closeVars, e2eVars>>

\* ------------------------------------------------------------------ Toolset

\* getattr(tool, "name", None) of a tool without a name, or with an empty one
NoName == ""
ToolNames == {"get_data", "get_promo_period"}
\* a tool object: two objects may carry the same name
Tool(n, o) == [name |-> n, obj |-> o]
ToolObjects ==
    {Tool("get_data", 1), Tool("get_data", 2), Tool("get_promo_period", 3), Tool(NoName, 4)}

\* a dict keeps its keys in the order of their first insertion
EmptyDict == <<>>
DictHas(d, k) == \E i \in DOMAIN d : d[i].key = k
DictGet(d, k) == d[CHOOSE i \in DOMAIN d : d[i].key = k].val
\* a key already present moves to the end
DictPutMovingLast(d, k, v) ==
    Append(SelectSeq(d, LAMBDA it : it.key # k), [key |-> k, val |-> v])

\* d[k] = v: a key already present keeps its place and takes the new value
DictPut(d, k, v) ==
    IF DictHas(d, k)
      THEN [i \in DOMAIN d |-> IF d[i].key = k THEN [key |-> k, val |-> v] ELSE d[i]]
      ELSE Append(d, [key |-> k, val |-> v])
DictKeys(d) == [i \in DOMAIN d |-> d[i].key]
DictValues(d) == [i \in DOMAIN d |-> d[i].val]

\* _rebuild_lookup: the named tools of self.tools, put one after another
RECURSIVE RebuildLookup(_)
RebuildLookup(ts) ==
    IF ts = <<>> THEN EmptyDict
    ELSE LET d == RebuildLookup(SubSeq(ts, 1, Len(ts) - 1))
             tool == ts[Len(ts)]
         IN  IF tool.name # NoName THEN DictPut(d, tool.name, tool) ELSE d

KeyError == [name |-> "KeyError", obj |-> 0]
\* Toolset.get_tool
GetTool(lookup, tool_name) ==
    IF DictHas(lookup, tool_name) THEN DictGet(lookup, tool_name) ELSE KeyError

\* Toolset(name, tools, description): __post_init__ builds the lookup
ToolsetConstruct(ts) ==
    /\ t_stage = "idle"
    /\ t_tools' = ts
    /\ t_lookup' = RebuildLookup(ts)
    /\ t_log' = <<>>
    /\ t_raised' = FALSE
    /\ t_stage' = "built"
    /\ UNCHANGED <<clientVars, callerVars, nextId, posted, eventsLeft, initOk, active, opsLeft, laterVars,
                   unwrapVars, schemaVars, t_calls, registryVars, closeVars, e2eVars>>

\* register_tool of a tool without a name raises ValueError
RegisterToolNameless(tool) ==
    /\ t_stage = "built"
    /\ t_calls < MaxRegisterTool
    /\ tool.name = NoName
    /\ t_raised' = TRUE
    /\ t_log' = <<>>
    /\ t_calls' = t_calls + 1
    /\ UNCHANGED <<clientVars, callerVars, nextId, posted, eventsLeft, initOk, active, opsLeft, laterVars,
                   unwrapVars, schemaVars, t_tools, t_lookup, t_stage, registryVars, closeVars, e2eVars>>

\* register_tool of a named tool: warns when the name is taken, appends the
\* tool to self.tools and puts it into the lookup
RegisterTool(tool) ==
    /\ t_stage = "built"
    /\ t_calls < MaxRegisterTool
    /\ tool.name # NoName
    /\ t_log' = IF DictHas(t_lookup, tool.name) THEN <<tool.name>> ELSE <<>>
    /\ t_tools' = Append(t_tools, tool)
    /\ t_lookup' = DictPut(t_lookup, tool.name, tool)
    /\ t_raised' = FALSE
    /\ t_calls' = t_calls + 1
    /\ UNCHANGED <<clientVars, callerVars, nextId, posted, eventsLeft, initOk, active, opsLeft, laterVars,
                   unwrapVars, schemaVars, t_stage, registryVars, closeVars, e2eVars>>

\* ------------------------------------------------------------------ ToolsetRegistry

ToolsetNames == {"salesforce", "sap-business-one"}
\* the tools lists of the toolsets that get registered
ToolLists ==
    LET g1 == Tool("get_data", 1)
        g2 == Tool("get_data", 2)
        p == Tool("get_promo_period", 3)
        n == Tool(NoName, 4)
    IN  {<<>>, <<g1>>, <<g2>>, <<p>>, <<g1, p>>, <<p, g2>>, <<g1, g2>>, <<n, g2>>}
\* a Toolset object as its constructor and register_tool leave it
ToolsetOf(nm, ts) ==
    [name |-> nm, tools |-> ts, lookup |-> RebuildLookup(ts), has_lookup |-> TRUE]
Toolsets == {ToolsetOf(nm, ts) : nm \in ToolsetNames, ts \in ToolLists}

\* the warnings of lines 52 and 56
ToolsetWarning(nm) == [kind |-> "toolset", name |-> nm]
CollisionWarning(tool_name) == [kind |-> "tool", name |-> tool_name]

\* the loop of lines 54-61 over toolset._tool_lookup.items()
RECURSIVE RegisterItems(_, _)
RegisterItems(reg, items) ==
    IF items = <<>> THEN reg
    ELSE LET it == Head(items)
             log == IF DictHas(reg.tools, it.key)
                      THEN Append(reg.log, CollisionWarning(it.key)) ELSE reg.log
         IN  RegisterItems([tools |-> DictPut(reg.tools, it.key, it.val), log |-> log],
                           Tail(items))

\* register keeps the tool a name already has
RegisterFirstWins(toolset) ==
    /\ Len(registered) < MaxRegs
    /\ LET kept == SelectSeq(toolset.lookup, LAMBDA it : ~DictHas(r_tools, it.key))
           done == RegisterItems([tools |-> r_tools, log |-> <<>>], kept)
       IN  /\ r_tools' = done.tools
           /\ r_log' = (IF DictHas(r_toolsets, toolset.name)
                          THEN <<ToolsetWarning(toolset.name)>> ELSE <<>>) \o done.log
    /\ r_toolsets' = DictPut(r_toolsets, toolset.name, toolset)
    /\ registered' = Append(registered, toolset)
    /\ UNCHANGED <<clientVars, callerVars, nextId, posted, eventsLeft, initOk, active, opsLeft, laterVars,
                   unwrapVars, schemaVars, toolsetVars, closeVars, e2eVars>>

\* ToolsetRegistry.register(toolset)
Register(toolset) ==
    /\ Len(registered) < MaxRegs
    /\ LET first == IF DictHas(r_toolsets, toolset.name)
                      THEN <<ToolsetWarning(toolset.name)>> ELSE <<>>
           done == RegisterItems([tools |-> r_tools, log |-> first], toolset.lookup)
       IN  /\ r_tools' = done.tools
           /\ r_log' = done.log
    /\ r_toolsets' = DictPut(r_toolsets, toolset.name, toolset)
    /\ registered' = Append(registered, toolset)
    /\ UNCHANGED <<clientVars, callerVars, nextId, posted, eventsLeft, initOk, active, opsLeft, laterVars,
                   unwrapVars, schemaVars, toolsetVars, closeVars, e2eVars>>

\* ToolsetRegistry.get_toolset
GetToolset(name) ==
    IF DictHas(r_toolsets, name) THEN DictGet(r_toolsets, name) ELSE KeyError

\* ToolsetRegistry.find_tool
FindTool(tool_name) ==
    IF DictHas(r_tools, tool_name) THEN DictGet(r_tools, tool_name) ELSE KeyError

\* ToolsetRegistry.all_tools
AllTools == DictValues(r_tools)

\* a Toolset of toolsets.py (and of toolset_types.py): a frozen dataclass of
\* name, tools and description, without _tool_lookup
PlainToolset(nm, ts) == [name |-> nm, tools |-> ts, lookup |-> <<>>, has_lookup |-> FALSE]

\* build_sales_tools and build_inventory_tools: the tools they return
SalesTools ==
    <<Tool("get_daily_sales", 11), Tool("get_promo_period", 12),
      Tool("get_promo_sales_by_store", 13), Tool("get_sales_data", 14)>>
InventoryTools ==
    <<Tool("get_unique_stores", 21), Tool("theoretical_onhand_after_promo_sales", 22),
      Tool("get_daily_inventory_for_store", 23), Tool("get_adjustments", 24),
      Tool("get_shrinkage_before_promo", 25), Tool("get_shrinkage_during_promo", 26),
      Tool("get_delayed_replenishments", 27), Tool("get_promo_replenishment_for_date", 28),
      Tool("get_all_transfers", 29), Tool("get_transfers_for_date", 30),
      Tool("get_emergency_receipts", 31), Tool("get_inventory_data", 32)>>
\* build_salesforce_toolset and build_sap_business_one_toolset
SalesforceToolset == PlainToolset("salesforce", SalesTools)
SapToolset == PlainToolset("sap-business-one", InventoryTools)
\* the toolsets a registry is constructed from: of either class
GivenToolsets ==
    {SalesforceToolset, SapToolset,
     ToolsetOf("salesforce", SalesTools), ToolsetOf("sap-business-one", InventoryTools)}
        \cup {ToolsetOf(nm, ts) : nm \in ToolsetNames, ts \in {<<>>, <<Tool("get_promo_period", 3)>>}}

NoRaise == ""
AttributeError == "AttributeError"

\* ToolsetRegistry.__init__, lines 46-48: register is called for each toolset
\* in turn; on a toolset without _tool_lookup line 54 raises AttributeError,
\* after line 53 has filed the toolset, and the constructor is left
RECURSIVE RegisterEach(_, _)
RegisterEach(reg, toolsets) ==
    IF toolsets = <<>> THEN reg
    ELSE LET toolset == Head(toolsets)
             first == IF DictHas(reg.toolsets, toolset.name)
                        THEN Append(reg.log, ToolsetWarning(toolset.name)) ELSE reg.log
             filed == DictPut(reg.toolsets, toolset.name, toolset)
             done == RegisterItems([tools |-> reg.tools, log |-> first], toolset.lookup)
         IN  IF toolset.has_lookup
               THEN RegisterEach([toolsets |-> filed, tools |-> done.tools, log |-> done.log,
                                  raised |-> NoRaise], Tail(toolsets))
               ELSE [toolsets |-> filed, tools |-> reg.tools, log |-> first,
                     raised |-> AttributeError]

\* build_agents, line 855 (with any toolsets): ToolsetRegistry(toolsets)
RegistryConstruct(toolsets) ==
    /\ a_stage = "idle"
    /\ LET reg == RegisterEach([toolsets |-> EmptyDict, tools |-> EmptyDict, log |-> <<>>,
                                raised |-> NoRaise], toolsets)
       IN  /\ r_toolsets' = reg.toolsets
           /\ r_tools' = reg.tools
           /\ r_log' = reg.log
           /\ r_raised' = reg.raised
    /\ a_given' = toolsets
    /\ a_stage' = "constructed"
    /\ UNCHANGED <<clientVars, callerVars, nextId, posted, eventsLeft, initOk, active, opsLeft,
                   unwrapVars, schemaVars, toolsetVars, closeVars, e2eVars, lockVars,
                   processVars, registered, a_promo>>

\* build_agents, line 859, reached when line 855 has not raised:
\* tool_registry.find_tool("get_promo_period")
FindPromoTool ==
    /\ a_stage = "constructed"
    /\ r_raised = NoRaise
    /\ a_promo' = FindTool("get_promo_period")
    /\ a_stage' = "found"
    /\ UNCHANGED <<clientVars, callerVars, nextId, posted, eventsLeft, initOk, active, opsLeft,
                   unwrapVars, schemaVars, toolsetVars, registryVars, closeVars, e2eVars,
                   lockVars, processVars, r_raised, a_given>>

\* ------------------------------------------------------------------ publisher and build_mcp_toolset

\* a local tool: its name, its declared arguments and the function it runs
LocalTool(n, props, req, fn) == [name |-> n, properties |-> props, required |-> req, fn |-> fn]
LocalTools ==
    {LocalTool("add", [a |-> "integer", b |-> "integer"], <<"a", "b">>, "add"),
     LocalTool("double", [a |-> "integer"], <<"a">>, "double"),
     LocalTool("one", <<>>, <<>>, "one")}

\* the keyword arguments of an invocation
ArgValues == {2, 3}
ArgMaps == UNION {[names -> ArgValues] : names \in SUBSET {"a", "b"}}

E2ERaise(k) == [tag |-> k, json |-> JNone, text |-> <<>>, obj |-> EmptyResult]
ValidationError == E2ERaise("ValidationError")
RemoteError == E2ERaise("RuntimeError")
\* no tools/call was sent; the params of one: the tool invoked (its place in the
\* toolset), and the name and arguments call_tool was given
NoCall == [tool |-> 0, name |-> NoName, arguments |-> <<>>]
ToolsCall(i, n, kwargs) == [tool |-> i, name |-> n, arguments |-> kwargs]

\* tool.invoke(kwargs) of the local tool: a required argument that is missing
\* is an error, otherwise the function's value
LocalInvoke(tool, kwargs) ==
    IF \E i \in DOMAIN tool.required : tool.required[i] \notin DOMAIN kwargs
      THEN [ok |-> FALSE, val |-> 0]
      ELSE [ok |-> TRUE,
            val |-> CASE tool.fn = "add" -> kwargs["a"] + kwargs["b"]
                      [] tool.fn = "double" -> kwargs["a"] + kwargs["a"]
                      [] OTHER -> 1]

\* _register_langchain_tool: the handler registered under the tool's name is
\* def _handler(**kwargs); the tool's declared arguments are not handed over
Handler(tool) ==
    [name |-> tool.name, signature |-> <<"**kwargs">>, tool |-> tool]

\* the input schemas a server can derive from the signature (**kwargs): none,
\* one without properties, or one whose only property is kwargs
NoInputSchema == [present |-> FALSE, properties |-> <<>>, required |-> <<>>]
InputSchema(props, req) == [present |-> TRUE, properties |-> props, required |-> req]
SignatureSchemas ==
    {NoInputSchema,
     InputSchema(<<>>, <<>>),
     InputSchema([kwargs |-> TypeMissing], <<"kwargs">>),
     InputSchema([kwargs |-> "string"], <<"kwargs">>),
     InputSchema([kwargs |-> "object"], <<>>)}

\* str(n) of a natural number
DigitChar(d) ==
    CASE d = 0 -> "0" [] d = 1 -> "1" [] d = 2 -> "2" [] d = 3 -> "3" [] d = 4 -> "4"
      [] d = 5 -> "5" [] d = 6 -> "6" [] d = 7 -> "7" [] d = 8 -> "8" [] d = 9 -> "9"
RECURSIVE DecimalText(_)
DecimalText(n) ==
    IF n < 10 THEN <<DigitChar(n)>> ELSE Append(DecimalText(n \div 10), DigitChar(n % 10))

\* _register_langchain_tool(server, tool)
Publish(tool) ==
    /\ e_stage = "idle"
    /\ e_published' = Append(e_published, Handler(tool))
    /\ e_stage' = "published"
    /\ UNCHANGED <<clientVars, callerVars, nextId, posted, eventsLeft, initOk, active, opsLeft, laterVars,
                   unwrapVars, schemaVars, toolsetVars, registryVars, closeVars,
                   e_listed, e_built, e_args, e_result, e_call>>

\* client.list_tools() at line 140: one descriptor for each handler, its input
\* schema one the server derived from the handler's signature
ListTools(schemas) ==
    /\ e_stage = "published"
    /\ DOMAIN schemas = DOMAIN e_published
    /\ e_listed' = [i \in DOMAIN e_published |->
                      [name |-> e_published[i].name, inputSchema |-> schemas[i]]]
    /\ e_stage' = "listed"
    /\ UNCHANGED <<clientVars, callerVars, nextId, posted, eventsLeft, initOk, active, opsLeft, laterVars,
                   unwrapVars, schemaVars, toolsetVars, registryVars, closeVars,
                   e_published, e_built, e_args, e_result, e_call>>

\* the loop body of lines 141-155: the remote tool made for one descriptor,
\* inputSchema or the default when it is missing or empty
RemoteTool(tool_def) ==
    LET given == tool_def.inputSchema
        input_schema == IF given.present /\ (given.properties # <<>> \/ given.required # <<>>)
                          THEN [properties |-> given.properties, required |-> given.required]
                          ELSE NoSchema
    IN  [name |-> tool_def.name, tool_name |-> tool_def.name,
         contract |-> SchemaToPydantic(input_schema)]

\* build_mcp_toolset whose _remote_tool reads tool_name when it is called: every
\* tool calls under the name of the last descriptor
BuildToolsetLateBound ==
    /\ e_stage = "listed"
    /\ e_built' = [i \in DOMAIN e_listed |->
                     [RemoteTool(e_listed[i]) EXCEPT
                        !.tool_name = e_listed[Len(e_listed)].name]]
    /\ e_stage' = "built"
    /\ UNCHANGED <<clientVars, callerVars, nextId, posted, eventsLeft, initOk, active, opsLeft, laterVars,
                   unwrapVars, schemaVars, toolsetVars, registryVars, closeVars,
                   e_published, e_listed, e_args, e_result, e_call>>

\* build_mcp_toolset returns the Toolset
BuildToolset ==
    /\ e_stage = "listed"
    /\ e_built' = [i \in DOMAIN e_listed |-> RemoteTool(e_listed[i])]
    /\ e_stage' = "built"
    /\ UNCHANGED <<clientVars, callerVars, nextId, posted, eventsLeft, initOk, active, opsLeft, laterVars,
                   unwrapVars, schemaVars, toolsetVars, registryVars, closeVars,
                   e_published, e_listed, e_args, e_result, e_call>>

\* the handler the server runs for tools/call of that name
HandlerOf(tool_name) ==
    e_published[CHOOSE i \in DOMAIN e_published : e_published[i].name = tool_name]

\* StructuredTool validating the arguments of an invocation against the tool's
\* args_schema: a required field is missing; the arguments handed to the function
Invalid(tool, args) ==
    \E p \in DOMAIN tool.contract : tool.contract[p].required /\ p \notin DOMAIN args
Validated(tool, args) ==
    [p \in {q \in DOMAIN args : q \in DOMAIN tool.contract} |-> args[p]]

\* a remote tool is invoked: the arguments are validated against its contract
\* (a missing required field raises, arguments the contract does not name are
\* dropped), _remote_tool calls call_tool with the rest, the handler runs the
\* local tool, and call_tool unwraps the text of its value
InvokeTool(i, args) ==
    /\ e_stage = "built"
    /\ i \in DOMAIN e_built
    /\ e_args' = args
    /\ LET tool == e_built[i]
           sent == Validated(tool, args)
           ran == LocalInvoke(HandlerOf(tool.tool_name).tool, sent)
       IN  IF Invalid(tool, args)
             THEN e_result' = ValidationError /\ e_call' = NoCall
             ELSE /\ e_call' = ToolsCall(i, tool.tool_name, sent)
                  /\ e_result' =
                       IF ~ran.ok THEN RemoteError
                       ELSE UnwrapResult(ResultObj(ContentOf(<<TextItem(DecimalText(ran.val))>>)))
    /\ e_stage' = "invoked"
    /\ UNCHANGED <<clientVars, callerVars, nextId, posted, eventsLeft, initOk, active, opsLeft, laterVars,
                   unwrapVars, schemaVars, toolsetVars, registryVars, closeVars,
                   e_published, e_listed, e_built>>

\* the tool descriptors of some MCP server: a name, and no input schema or one
\* with integer properties
ServerDescriptors ==
    {[name |-> n, inputSchema |-> sch] :
        n \in {"add", "double"},
        sch \in {NoInputSchema,
                 InputSchema([a |-> "integer"], <<"a">>),
                 InputSchema([a |-> "integer", b |-> "integer"], <<"a">>)}}

\* client.list_tools() at line 140 against that server
ListDescriptors(tool_defs) ==
    /\ e_stage = "idle"
    /\ tool_defs # <<>>
    /\ e_listed' = tool_defs
    /\ e_stage' = "listed"
    /\ UNCHANGED <<clientVars, callerVars, nextId, posted, eventsLeft, initOk, active, opsLeft, laterVars,
                   unwrapVars, schemaVars, toolsetVars, registryVars, closeVars,
                   e_published, e_built, e_args, e_result, e_call>>

\* a remote tool of that toolset is invoked: the arguments are validated and
\* _remote_tool hands its bound name and its keyword arguments to call_tool
\* (lines 146-147), which sends them as the params of tools/call (line 125);
\* the server answers with an empty result
CallRemote(i, args) ==
    /\ e_stage = "built"
    /\ e_published = <<>>
    /\ i \in DOMAIN e_built
    /\ e_args' = args
    /\ IF Invalid(e_built[i], args)
         THEN e_result' = ValidationError /\ e_call' = NoCall
         ELSE /\ e_call' = ToolsCall(i, e_built[i].tool_name, Validated(e_built[i], args))
              /\ e_result' = UnwrapResult(EmptyResult)
    /\ e_stage' = "invoked"
    /\ UNCHANGED <<clientVars, callerVars, nextId, posted, eventsLeft, initOk, active, opsLeft, laterVars,
                   unwrapVars, schemaVars, toolsetVars, registryVars, closeVars,
                   e_published, e_listed, e_built>>

\* ------------------------------------------------------------------ init

\* McpSseClient.__init__, and no caller inside an api call
ClientInit ==
    /\ messages_url = DefaultMessagesUrl
    /\ thread = "none"
    /\ orphans = 0
    /\ responses = <<>>
    /\ initialized = FALSE
    /\ pc = [c \in Callers |-> "idle"]
    /\ op = [c \in Callers |-> "none"]
    /\ method = [c \in Callers |-> ""]
    /\ rid = [c \in Callers |-> 0]
    /\ resp = [c \in Callers |-> NoResponse]
    /\ outcome = [c \in Callers |-> NoOutcome]
    /\ nextId = 1
    /\ posted = {}
    /\ initOk = 0
    /\ stop_event = FALSE
    /\ cpc = "idle"
    /\ closed = 0
    /\ close_raised = FALSE

\* nothing has called call_tool's unwrapping or _schema_to_pydantic on their own
UnwrapIdle ==
    /\ uresult = EmptyResult
    /\ uret = NoReturn
    /\ ustage = "idle"
SchemaIdle ==
    /\ schema = NoSchema
    /\ contract = <<>>
    /\ sstage = "idle"
\* no Toolset has been constructed
ToolsetIdle ==
    /\ t_tools = <<>>
    /\ t_lookup = EmptyDict
    /\ t_log = <<>>
    /\ t_raised = FALSE
    /\ t_stage = "idle"
    /\ t_calls = 0
\* ToolsetRegistry.__init__ without toolsets
RegistryInit ==
    /\ r_toolsets = EmptyDict
    /\ r_tools = EmptyDict
    /\ r_log = <<>>
    /\ registered = <<>>
\* no tool has been published
E2EIdle ==
    /\ e_stage = "idle"
    /\ e_published = <<>>
    /\ e_listed = <<>>
    /\ e_built = <<>>
    /\ e_args = <<>>
    /\ e_result = NoReturn
    /\ e_call = NoCall

\* the uuid4 hex request() drew for each caller
RequestId(c) == IF c = "t1" THEN 1 ELSE 2
\* the ids the server answers with
LockIds == {RequestId(c) : c \in Callers} \cup {ForeignId}
\* nobody is in request() or in _handle_event
LockIdle ==
    /\ cond_owner = "free"
    /\ lk_pc = [c \in Callers |-> "idle"]
    /\ lk_hpc = "idle"
    /\ lk_hid = 0
    /\ lk_responses = {}
    /\ lk_timed = [c \in Callers |-> FALSE]
    /\ lk_got = [c \in Callers |-> FALSE]
    /\ lk_early = [c \in Callers |-> FALSE]
    /\ lk_events = 0
\* build_agents has not been called
AgentsIdle ==
    /\ r_raised = NoRaise
    /\ a_stage = "idle"
    /\ a_given = <<>>
    /\ a_promo = KeyError
\* what process_response returned or raised
NoResult == [kind |-> "none", val |-> JNone, exc |-> ""]
ProcessReturn(v) == [kind |-> "return", val |-> v, exc |-> ""]
ProcessRaise(e) == [kind |-> "raise", val |-> JNone, exc |-> e]

\* process_response has not been called
ProcessIdle ==
    /\ p_stage = "idle"
    /\ p_content = <<>>
    /\ p_llm = FALSE
    /\ p_attempt = 0
    /\ p_parses = 0
    /\ p_repairs = 0
    /\ p_result = NoResult
RestIdle ==
    /\ LockIdle
    /\ AgentsIdle
    /\ ProcessIdle

\* a freshly constructed client used by the threads of Callers at once, each
\* making one api call
Init ==
    /\ ClientInit
    /\ active = Callers
    /\ opsLeft = [c \in Callers |-> 1]
    /\ eventsLeft = MaxEvents
    /\ closesLeft = 0
    /\ UnwrapIdle
    /\ SchemaIdle
    /\ ToolsetIdle
    /\ RegistryInit
    /\ E2EIdle
    /\ RestIdle

\* the same, with one event fewer from the server
InitFair ==
    /\ ClientInit
    /\ active = Callers
    /\ opsLeft = [c \in Callers |-> 1]
    /\ eventsLeft = MaxEvents - 1
    /\ closesLeft = 0
    /\ UnwrapIdle
    /\ SchemaIdle
    /\ ToolsetIdle
    /\ RegistryInit
    /\ E2EIdle
    /\ RestIdle

\* a freshly constructed client used by one thread, one call after another
InitSeq ==
    /\ ClientInit
    /\ active = {"t1"}
    /\ opsLeft = [c \in Callers |-> IF c \in active THEN MaxSeqOps ELSE 0]
    /\ eventsLeft = MaxEvents
    /\ closesLeft = 0
    /\ UnwrapIdle
    /\ SchemaIdle
    /\ ToolsetIdle
    /\ RegistryInit
    /\ E2EIdle
    /\ RestIdle

\* call_tool after request() has returned some result object
InitUnwrap ==
    /\ ClientInit
    /\ active = {}
    /\ opsLeft = [c \in Callers |-> 0]
    /\ eventsLeft = 0
    /\ closesLeft = 0
    /\ uresult \in UnwrapInputs
    /\ uret = NoReturn
    /\ ustage = "called"
    /\ SchemaIdle
    /\ ToolsetIdle
    /\ RegistryInit
    /\ E2EIdle
    /\ RestIdle

\* _schema_to_pydantic called with some input schema
InitSchema ==
    /\ ClientInit
    /\ active = {}
    /\ opsLeft = [c \in Callers |-> 0]
    /\ eventsLeft = 0
    /\ closesLeft = 0
    /\ UnwrapIdle
    /\ schema \in Schemas
    /\ contract = <<>>
    /\ sstage = "called"
    /\ ToolsetIdle
    /\ RegistryInit
    /\ E2EIdle
    /\ RestIdle

\* a freshly constructed client used by one thread for one api call
InitEvents ==
    /\ ClientInit
    /\ active = {"t1"}
    /\ opsLeft = [c \in Callers |-> IF c \in active THEN 1 ELSE 0]
    /\ eventsLeft = MaxEvents
    /\ closesLeft = 0
    /\ UnwrapIdle
    /\ SchemaIdle
    /\ ToolsetIdle
    /\ RegistryInit
    /\ E2EIdle
    /\ RestIdle

\* a freshly constructed client used by one thread while another thread calls
\* close()
InitClose ==
    /\ ClientInit
    /\ active = {"t1"}
    /\ opsLeft = [c \in Callers |-> IF c \in active THEN MaxOps ELSE 0]
    /\ eventsLeft = MaxEvents
    /\ closesLeft = MaxCloses
    /\ UnwrapIdle
    /\ SchemaIdle
    /\ ToolsetIdle
    /\ RegistryInit
    /\ E2EIdle
    /\ RestIdle

\* no client call is made
ClientIdle ==
    /\ ClientInit
    /\ active = {}
    /\ opsLeft = [c \in Callers |-> 0]
    /\ eventsLeft = 0
    /\ closesLeft = 0

\* a server without tools and no client built yet
InitE2E ==
    /\ ClientIdle
    /\ UnwrapIdle
    /\ SchemaIdle
    /\ ToolsetIdle
    /\ RegistryInit
    /\ E2EIdle
    /\ RestIdle

\* one Toolset, about to be constructed
InitToolset ==
    /\ ClientIdle
    /\ UnwrapIdle
    /\ SchemaIdle
    /\ ToolsetIdle
    /\ RegistryInit
    /\ E2EIdle
    /\ RestIdle

\* a ToolsetRegistry constructed without toolsets
InitRegistry ==
    /\ ClientIdle
    /\ UnwrapIdle
    /\ SchemaIdle
    /\ ToolsetIdle
    /\ RegistryInit
    /\ E2EIdle
    /\ RestIdle

\* a freshly constructed client used by one thread for one api call while
\* another thread calls close()
InitCloseOnce ==
    /\ ClientInit
    /\ active = {"t1"}
    /\ opsLeft = [c \in Callers |-> IF c \in active THEN 1 ELSE 0]
    /\ eventsLeft = MaxEvents
    /\ closesLeft = MaxCloses
    /\ UnwrapIdle
    /\ SchemaIdle
    /\ ToolsetIdle
    /\ RegistryInit
    /\ E2EIdle
    /\ RestIdle

\* process_response is about to be called
InitProcess ==
    /\ ClientIdle
    /\ UnwrapIdle
    /\ SchemaIdle
    /\ ToolsetIdle
    /\ RegistryInit
    /\ E2EIdle
    /\ LockIdle
    /\ AgentsIdle
    /\ ProcessIdle

\* every caller has posted its envelope (line 107) and the receive thread runs
InitLock ==
    /\ ClientIdle
    /\ UnwrapIdle
    /\ SchemaIdle
    /\ ToolsetIdle
    /\ RegistryInit
    /\ E2EIdle
    /\ AgentsIdle
    /\ ProcessIdle
    /\ cond_owner = "free"
    /\ lk_pc = [c \in Callers |-> "posted"]
    /\ lk_hpc = "idle"
    /\ lk_hid = 0
    /\ lk_responses = {}
    /\ lk_timed = [c \in Callers |-> FALSE]
    /\ lk_got = [c \in Callers |-> FALSE]
    /\ lk_early = [c \in Callers |-> FALSE]
    /\ lk_events = MaxEvents

\* ------------------------------------------------------------------ helpers

\* dict.pop / dict.__setitem__ on self._responses
MapRemove(m, k) == [i \in DOMAIN m \ {k} |-> m[i]]
MapPut(m, k, v) == [i \in DOMAIN m \cup {k} |-> IF i = k THEN v ELSE m[i]]

\* self._thread and self._thread.is_alive()
ThreadAlive == thread = "alive"

\* response["error"].get("message", "Unknown MCP error")
ErrorMessage(e) == IF e = ErrNoMessage THEN UnknownMcpError ELSE e

\* response.get("result", {})
ResultField(p) == IF p.res.present THEN p.res.obj ELSE EmptyResult

\* the ids the server has seen, and the bodies it may put on the stream
KnownIds == {e.id : e \in posted}
\* a result, or an error with a message
BasicShapes ==
    {<<ErrAbsent, ResOf(r)>> : r \in ClientResults} \cup {<<m, ResAbsent>> : m \in ErrMessages}
\* and the envelopes with neither, with an error that has no message, with both
AllShapes ==
    BasicShapes
        \cup {<<ErrAbsent, ResAbsent>>, <<ErrNoMessage, ResAbsent>>}
        \cup {<<m, ResOf(r)>> : m \in ErrMessages, r \in ClientResults}
ResponseEvents(shapes) ==
    {ObjEvent(NoUrl, i, sh[1], sh[2]) : i \in KnownIds, sh \in shapes}
        \cup {ObjEvent(NoUrl, ForeignId, ErrAbsent, ResOf(r)) : r \in ClientResults}
EndpointEvents == {ObjEvent(u, 0, ErrAbsent, ResAbsent) : u \in AnnouncedUrls}
NoIdEvents == {ObjEvent(NoUrl, 0, ErrAbsent, ResAbsent)}
\* the bodies of a server that sends any combination of the keys "url" and
\* "id", with false values too, and announces more than one url
KeyedEvents ==
    LET bodies == {KeyedEvent(uk, u, ik, i, ErrAbsent, ResOf(x)) :
                      uk \in BOOLEAN, u \in ReannouncedUrls \cup {NoUrl},
                      ik \in BOOLEAN, i \in KnownIds \cup {0}, x \in ClientResults}
    IN  {e \in bodies : (e.urlKey \/ e.url = NoUrl) /\ (e.idKey \/ e.id = 0)}

\* ------------------------------------------------------------------ callers

\* list_tools() without the test of the flag: initialize is sent by every call
BeginListToolsAlwaysInit(c) ==
    /\ pc[c] = "idle"
    /\ c \in active
    /\ opsLeft[c] > 0
    /\ opsLeft' = [opsLeft EXCEPT ![c] = opsLeft[c] - 1]
    /\ op' = [op EXCEPT ![c] = "list_tools"]
    /\ method' = [method EXCEPT ![c] = "initialize"]
    /\ pc' = [pc EXCEPT ![c] = "start"]
    /\ outcome' = [outcome EXCEPT ![c] = NoOutcome]
    /\ resp' = [resp EXCEPT ![c] = NoResponse]
    /\ rid' = [rid EXCEPT ![c] = 0]
    /\ UNCHANGED <<clientVars, nextId, posted, eventsLeft, initOk, others>>

\* list_tools() without the handshake: tools/list is sent at once
BeginListToolsNoInit(c) ==
    /\ pc[c] = "idle"
    /\ c \in active
    /\ opsLeft[c] > 0
    /\ opsLeft' = [opsLeft EXCEPT ![c] = opsLeft[c] - 1]
    /\ op' = [op EXCEPT ![c] = "list_tools"]
    /\ method' = [method EXCEPT ![c] = "tools/list"]
    /\ pc' = [pc EXCEPT ![c] = "start"]
    /\ outcome' = [outcome EXCEPT ![c] = NoOutcome]
    /\ resp' = [resp EXCEPT ![c] = NoResponse]
    /\ rid' = [rid EXCEPT ![c] = 0]
    /\ UNCHANGED <<clientVars, nextId, posted, eventsLeft, initOk, others>>

\* list_tools(), up to the entry into its first request()
BeginListTools(c) ==
    /\ pc[c] = "idle"
    /\ c \in active
    /\ opsLeft[c] > 0
    /\ opsLeft' = [opsLeft EXCEPT ![c] = opsLeft[c] - 1]
    /\ op' = [op EXCEPT ![c] = "list_tools"]
    /\ method' = [method EXCEPT ![c] = IF initialized THEN "tools/list" ELSE "initialize"]
    /\ pc' = [pc EXCEPT ![c] = "start"]
    /\ outcome' = [outcome EXCEPT ![c] = NoOutcome]
    /\ resp' = [resp EXCEPT ![c] = NoResponse]
    /\ rid' = [rid EXCEPT ![c] = 0]
    /\ UNCHANGED <<clientVars, nextId, posted, eventsLeft, initOk, others>>

\* call_tool(), up to the entry into request("tools/call")
BeginCallTool(c) ==
    /\ pc[c] = "idle"
    /\ c \in active
    /\ opsLeft[c] > 0
    /\ opsLeft' = [opsLeft EXCEPT ![c] = opsLeft[c] - 1]
    /\ op' = [op EXCEPT ![c] = "call_tool"]
    /\ method' = [method EXCEPT ![c] = "tools/call"]
    /\ pc' = [pc EXCEPT ![c] = "start"]
    /\ outcome' = [outcome EXCEPT ![c] = NoOutcome]
    /\ resp' = [resp EXCEPT ![c] = NoResponse]
    /\ rid' = [rid EXCEPT ![c] = 0]
    /\ UNCHANGED <<clientVars, nextId, posted, eventsLeft, initOk, others>>

\* the api call is left (by return or by an exception): its locals are gone
Leave(c) ==
    /\ pc' = [pc EXCEPT ![c] = "idle"]
    /\ op' = [op EXCEPT ![c] = "none"]
    /\ method' = [method EXCEPT ![c] = ""]
    /\ rid' = [rid EXCEPT ![c] = 0]
    /\ resp' = [resp EXCEPT ![c] = NoResponse]

\* start(): the test of self._thread
StartCheck(c) ==
    /\ pc[c] = "start"
    /\ pc' = [pc EXCEPT ![c] = IF ThreadAlive THEN "post" ELSE "spawn"]
    /\ UNCHANGED <<clientVars, op, method, rid, resp, outcome,
                   nextId, posted, eventsLeft, initOk, others, opsLeft>>

\* start(), line 50: a new Thread object is made and assigned to self._thread;
\* a running thread self._thread referred to runs on, referred to by nobody
StartCreate(c) ==
    /\ pc[c] = "spawn"
    /\ thread' = "created"
    /\ orphans' = IF thread = "alive" THEN orphans + 1 ELSE orphans
    /\ pc' = [pc EXCEPT ![c] = "run"]
    /\ UNCHANGED <<messages_url, responses, initialized, op, method, rid, resp, outcome,
                   nextId, posted, eventsLeft, initOk, others, opsLeft>>

\* start(), line 51: self._thread is read again and started
StartThread(c) ==
    /\ pc[c] = "run"
    /\ thread = "created"
    /\ thread' = "alive"
    /\ pc' = [pc EXCEPT ![c] = "post"]
    /\ UNCHANGED <<messages_url, orphans, responses, initialized, op, method, rid, resp,
                   outcome, nextId, posted, eventsLeft, initOk, others, opsLeft>>

\* start(), line 51: another caller has started the Thread self._thread now
\* refers to, Thread.start() raises RuntimeError and the api call is left
StartThreadRaise(c) ==
    /\ pc[c] = "run"
    /\ thread \in {"alive", "dead"}
    /\ outcome' = [outcome EXCEPT ![c] = Outcome("start", "", EmptyResult)]
    /\ Leave(c)
    /\ UNCHANGED <<clientVars, nextId, posted, eventsLeft, initOk, others, opsLeft>>

\* request(): the id is drawn and _post_message delivers the envelope
PostOk(c) ==
    /\ pc[c] = "post"
    /\ rid' = [rid EXCEPT ![c] = nextId]
    /\ nextId' = nextId + 1
    /\ posted' = posted \cup {[id |-> nextId, method |-> method[c]]}
    /\ pc' = [pc EXCEPT ![c] = "wait"]
    /\ UNCHANGED <<clientVars, op, method, resp, outcome, eventsLeft, initOk, others, opsLeft>>

\* request(): _post_message raises (connection error or raise_for_status);
\* the exception leaves request() and the api call, and the id drawn for
\* the envelope was seen by nobody
PostFail(c) ==
    /\ pc[c] = "post"
    /\ outcome' = [outcome EXCEPT ![c] = Outcome("transport", "", EmptyResult)]
    /\ Leave(c)
    /\ UNCHANGED <<clientVars, nextId, posted, eventsLeft, initOk, others, opsLeft>>

\* request() taking whatever response is in the map, not the one of its id
WaitExitAnyEntry(c) ==
    /\ pc[c] = "wait"
    /\ IF DOMAIN responses # {}
         THEN \E k \in DOMAIN responses :
                  /\ resp' = [resp EXCEPT ![c] = responses[k]]
                  /\ responses' = MapRemove(responses, k)
         ELSE /\ resp' = [resp EXCEPT ![c] = NoResponse]
              /\ UNCHANGED responses
    /\ pc' = [pc EXCEPT ![c] = "check"]
    /\ UNCHANGED <<messages_url, thread, orphans, initialized, op, method, rid,
                   outcome, nextId, posted, eventsLeft, initOk, others, opsLeft>>

\* request() waiting without a timeout: it is left only once the id is in the map
WaitExitNoTimeout(c) ==
    /\ pc[c] = "wait"
    /\ rid[c] \in DOMAIN responses
    /\ resp' = [resp EXCEPT ![c] = responses[rid[c]]]
    /\ responses' = MapRemove(responses, rid[c])
    /\ pc' = [pc EXCEPT ![c] = "check"]
    /\ UNCHANGED <<messages_url, thread, orphans, initialized, op, method, rid,
                   outcome, nextId, posted, eventsLeft, initOk, others, opsLeft>>

\* request(): wait_for ends (the id is in the map, or the timeout passed)
\* and the entry is popped, all under the condition's lock
WaitExit(c) ==
    /\ pc[c] = "wait"
    /\ IF rid[c] \in DOMAIN responses
         THEN /\ resp' = [resp EXCEPT ![c] = responses[rid[c]]]
              /\ responses' = MapRemove(responses, rid[c])
         ELSE /\ resp' = [resp EXCEPT ![c] = NoResponse]
              /\ UNCHANGED responses
    /\ pc' = [pc EXCEPT ![c] = "check"]
    /\ UNCHANGED <<messages_url, thread, orphans, initialized, op, method, rid,
                   outcome, nextId, posted, eventsLeft, initOk, others, opsLeft>>

\* request(): response is None
RaiseTimeout(c) ==
    /\ pc[c] = "check"
    /\ resp[c] = NoResponse
    /\ outcome' = [outcome EXCEPT ![c] = Outcome("timeout", method[c], EmptyResult)]
    /\ Leave(c)
    /\ UNCHANGED <<clientVars, nextId, posted, eventsLeft, initOk, others, opsLeft>>

\* request() turning an error envelope into the default result
RaiseRemoteDefault(c) ==
    /\ pc[c] = "check"
    /\ resp[c] # NoResponse
    /\ resp[c].err # ErrAbsent
    /\ outcome' = [outcome EXCEPT ![c] = Outcome("result", "", EmptyResult)]
    /\ Leave(c)
    /\ UNCHANGED <<clientVars, nextId, posted, eventsLeft, initOk, others, opsLeft>>

\* request(): "error" in response
RaiseRemote(c) ==
    /\ pc[c] = "check"
    /\ resp[c] # NoResponse
    /\ resp[c].err # ErrAbsent
    /\ outcome' = [outcome EXCEPT ![c] =
                      Outcome("remote", ErrorMessage(resp[c].err), EmptyResult)]
    /\ Leave(c)
    /\ UNCHANGED <<clientVars, nextId, posted, eventsLeft, initOk, others, opsLeft>>

\* request() returns response.get("result", {}); after "initialize" list_tools
\* sets the flag and enters request("tools/list"), otherwise the api call returns
ReturnResult(c) ==
    /\ pc[c] = "check"
    /\ resp[c] # NoResponse
    /\ resp[c].err = ErrAbsent
    /\ outcome' = [outcome EXCEPT ![c] =
                      Returned(ResultField(resp[c]),
                               IF method[c] = "initialize" THEN NoReturn
                               ELSE IF op[c] = "call_tool" THEN UnwrapResult(ResultField(resp[c]))
                               ELSE RetTools)]
    /\ IF op[c] = "list_tools" /\ method[c] = "initialize"
         THEN /\ initialized' = TRUE
              /\ initOk' = initOk + 1
              /\ method' = [method EXCEPT ![c] = "tools/list"]
              /\ pc' = [pc EXCEPT ![c] = "start"]
              /\ rid' = [rid EXCEPT ![c] = 0]
              /\ resp' = [resp EXCEPT ![c] = NoResponse]
              /\ UNCHANGED op
         ELSE /\ Leave(c)
              /\ UNCHANGED <<initialized, initOk>>
    /\ UNCHANGED <<messages_url, thread, orphans, responses,
                   nextId, posted, eventsLeft, others, opsLeft>>

\* ------------------------------------------------------------------ receive loop

\* the receive threads: the one self._thread refers to, and the others
ReceiveThreads == {"current", "orphan"}
Running(l) ==
    \/ l = "current" /\ thread = "alive"
    \/ l = "orphan" /\ orphans > 0

\* _listen returns: the thread is no longer alive
LoopExit(l) ==
    /\ thread' = IF l = "current" THEN "dead" ELSE thread
    /\ orphans' = IF l = "orphan" THEN orphans - 1 ELSE orphans

\* _handle_event: json.loads raises JSONDecodeError, the event is skipped
HandleNonJson(l) ==
    /\ Running(l)
    /\ ~stop_event
    /\ eventsLeft > 0
    /\ eventsLeft' = eventsLeft - 1
    /\ UNCHANGED <<clientVars, callerVars, nextId, posted, initOk, others, opsLeft>>

\* _handle_event: the body is JSON but no object, payload.get raises and
\* _listen ends in its except clause
HandleNonObject(l) ==
    /\ Running(l)
    /\ ~stop_event
    /\ eventsLeft > 0
    /\ eventsLeft' = eventsLeft - 1
    /\ LoopExit(l)
    /\ UNCHANGED <<messages_url, responses, initialized, callerVars,
                   nextId, posted, initOk, others, opsLeft>>

\* _handle_event filing a body with a url under its id as well
HandleEndpointAlsoStoring(l, e) ==
    /\ Running(l)
    /\ ~stop_event
    /\ eventsLeft > 0
    /\ e.kind = "object" /\ e.url # NoUrl
    /\ eventsLeft' = eventsLeft - 1
    /\ messages_url' = e.url
    /\ responses' = IF e.id # 0 THEN MapPut(responses, e.id, e) ELSE responses
    /\ UNCHANGED <<thread, orphans, initialized, callerVars,
                   nextId, posted, initOk, others, opsLeft>>

\* _handle_event: the body has a url
HandleEndpoint(l, e) ==
    /\ Running(l)
    /\ ~stop_event
    /\ eventsLeft > 0
    /\ e.kind = "object" /\ e.url # NoUrl
    /\ eventsLeft' = eventsLeft - 1
    /\ messages_url' = e.url
    /\ UNCHANGED <<thread, orphans, responses, initialized, callerVars,
                   nextId, posted, initOk, others, opsLeft>>

\* _handle_event: no url and no id
HandleNoId(l, e) ==
    /\ Running(l)
    /\ ~stop_event
    /\ eventsLeft > 0
    /\ e.kind = "object" /\ e.url = NoUrl /\ e.id = 0
    /\ eventsLeft' = eventsLeft - 1
    /\ UNCHANGED <<clientVars, callerVars, nextId, posted, initOk, others, opsLeft>>

\* _listen dispatching without a look at the stop event
HandleResponseIgnoringStop(l, e) ==
    /\ Running(l)
    /\ eventsLeft > 0
    /\ e.kind = "object" /\ e.url = NoUrl /\ e.id # 0
    /\ eventsLeft' = eventsLeft - 1
    /\ responses' = MapPut(responses, e.id, e)
    /\ UNCHANGED <<messages_url, thread, orphans, initialized, callerVars,
                   nextId, posted, initOk, others, opsLeft>>

\* _handle_event: the payload is stored under its id and the waiters are woken
HandleResponse(l, e) ==
    /\ Running(l)
    /\ ~stop_event
    /\ eventsLeft > 0
    /\ e.kind = "object" /\ e.url = NoUrl /\ e.id # 0
    /\ eventsLeft' = eventsLeft - 1
    /\ responses' = MapPut(responses, e.id, e)
    /\ UNCHANGED <<messages_url, thread, orphans, initialized, callerVars,
                   nextId, posted, initOk, others, opsLeft>>

\* _listen: the stream fails or ends, the loop is left
ListenFail(l) ==
    /\ Running(l)
    /\ LoopExit(l)
    /\ UNCHANGED <<messages_url, responses, initialized, callerVars,
                   nextId, posted, eventsLeft, initOk, others, opsLeft>>

\* _listen, lines 67-68: a line is read with the stop event set, the loop is left
LoopStop(l) ==
    /\ Running(l)
    /\ stop_event
    /\ LoopExit(l)
    /\ UNCHANGED <<messages_url, responses, initialized, callerVars,
                   nextId, posted, eventsLeft, initOk, others, opsLeft>>

\* ------------------------------------------------------------------ close

\* close(), line 54: the stop event is set
CloseSetStop ==
    /\ cpc = "idle"
    /\ closesLeft > 0
    /\ closesLeft' = closesLeft - 1
    /\ stop_event' = TRUE
    /\ cpc' = "join"
    /\ UNCHANGED <<clientVars, callerVars, nextId, posted, eventsLeft, initOk, active, opsLeft, laterVars,
                   unwrapVars, schemaVars, toolsetVars, registryVars, closed, close_raised, e2eVars>>

\* close() joining whatever self._thread is, None too
CloseJoinUnguarded ==
    /\ cpc = "join"
    /\ IF thread \in {"none", "created"}
         THEN cpc' = "idle" /\ close_raised' = TRUE
         ELSE cpc' = "session" /\ UNCHANGED close_raised
    /\ UNCHANGED <<clientVars, callerVars, nextId, posted, eventsLeft, initOk, active, opsLeft, laterVars,
                   unwrapVars, schemaVars, toolsetVars, registryVars,
                   stop_event, closesLeft, closed, e2eVars>>

\* close(), lines 55-56: no thread, or join returns, the thread ended or not
\* after 5 s; join on a Thread made and not yet started raises RuntimeError
CloseJoin ==
    /\ cpc = "join"
    /\ IF thread = "created"
         THEN cpc' = "idle" /\ close_raised' = TRUE
         ELSE cpc' = "session" /\ UNCHANGED close_raised
    /\ UNCHANGED <<clientVars, callerVars, nextId, posted, eventsLeft, initOk, active, opsLeft, laterVars,
                   unwrapVars, schemaVars, toolsetVars, registryVars,
                   stop_event, closesLeft, closed, e2eVars>>

\* close(), line 57: the session is closed and close() returns
CloseSession ==
    /\ cpc = "session"
    /\ cpc' = "idle"
    /\ closed' = closed + 1
    /\ UNCHANGED <<clientVars, callerVars, nextId, posted, eventsLeft, initOk, active, opsLeft, laterVars,
                   unwrapVars, schemaVars, toolsetVars, registryVars,
                   stop_event, closesLeft, close_raised, e2eVars>>

\* ------------------------------------------------------------------ process_response

lockFrame0 == <<clientVars, callerVars, nextId, posted, eventsLeft, initOk, active, opsLeft,
                unwrapVars, schemaVars, toolsetVars, registryVars, closeVars, e2eVars>>

\* a response_content that is no string (the content blocks of a message)
NotText == <<"content", "blocks">>
\* fixed_response.content of a repair call, or LlmRaises when llm.invoke raises
LlmRaises == <<"llm.invoke", "raises">>
LlmReplies == {<<"1">>, <<"{">>, <<Quote, "1", Quote>>, <<Quote, "x", Quote>>, NotText, LlmRaises}

\* str.strip()
RECURSIVE Strip(_)
Strip(t) ==
    IF t = <<>> THEN t
    ELSE IF Head(t) = " " THEN Strip(Tail(t))
    ELSE IF t[Len(t)] = " " THEN Strip(SubSeq(t, 1, Len(t) - 1))
    ELSE t

\* extract_json_from_response on a text without a ``` fence
ExtractJsonFromResponse(response_text) == Strip(response_text)

\* lines 48-52: the text is extracted and loaded, and a string that comes out is
\* loaded once more; ok is false when a json.loads raises JSONDecodeError
ParseAttempt(response_content) ==
    LET once == JsonLoads(ExtractJsonFromResponse(response_content))
    IN  IF once.ok /\ once.val.t = "str" THEN JsonLoads(once.val.s) ELSE once

\* process_response(response_content, llm), lines 44-47: the loop starts with attempt 1
ProcessCall(response_content, llm) ==
    /\ p_stage = "idle"
    /\ p_stage' = "attempt"
    /\ p_content' = response_content
    /\ p_llm' = llm
    /\ p_attempt' = 1
    /\ UNCHANGED <<lockFrame0, lockVars, agentVars, p_parses, p_repairs, p_result>>

\* the try block of a loop that goes on to its next attempt when no llm is given
ProcessAttemptNoBreak ==
    /\ p_stage = "attempt"
    /\ p_parses' = p_parses + 1
    /\ IF p_content = NotText
         THEN p_stage' = "raised" /\ p_result' = ProcessRaise("TypeError") /\ UNCHANGED p_attempt
         ELSE IF ParseAttempt(p_content).ok
           THEN /\ p_stage' = "returned"
                /\ p_result' = ProcessReturn(ParseAttempt(p_content).val)
                /\ UNCHANGED p_attempt
         ELSE IF ~p_llm
           THEN IF p_attempt = 3
                  THEN p_stage' = "raised" /\ p_result' = ProcessRaise("ValueError")
                       /\ UNCHANGED p_attempt
                  ELSE p_attempt' = p_attempt + 1 /\ UNCHANGED <<p_stage, p_result>>
         ELSE p_stage' = "repair" /\ UNCHANGED <<p_result, p_attempt>>
    /\ UNCHANGED <<lockFrame0, lockVars, agentVars, p_content, p_llm, p_repairs>>

\* one run of the try block, lines 47-59: the value is returned, or the attempt
\* has failed and, without an llm, the loop is left and ValueError raised;
\* a response_content that is no string makes re.search raise TypeError
ProcessAttempt ==
    /\ p_stage = "attempt"
    /\ p_parses' = p_parses + 1
    /\ IF p_content = NotText
         THEN p_stage' = "raised" /\ p_result' = ProcessRaise("TypeError")
         ELSE IF ParseAttempt(p_content).ok
           THEN p_stage' = "returned" /\ p_result' = ProcessReturn(ParseAttempt(p_content).val)
         ELSE IF ~p_llm
           THEN p_stage' = "raised" /\ p_result' = ProcessRaise("ValueError")
         ELSE p_stage' = "repair" /\ UNCHANGED p_result
    /\ UNCHANGED <<lockFrame0, lockVars, agentVars, p_content, p_llm, p_attempt, p_repairs>>

\* lines 60-66: llm.invoke is called and its content becomes response_content;
\* an exception of llm.invoke leaves process_response; after the third
\* attempt the loop is over and line 68 raises ValueError
ProcessRepair(reply) ==
    /\ p_stage = "repair"
    /\ p_repairs' = p_repairs + 1
    /\ IF reply = LlmRaises
         THEN /\ p_stage' = "raised"
              /\ p_result' = ProcessRaise("LlmError")
              /\ UNCHANGED <<p_content, p_attempt>>
         ELSE /\ p_content' = reply
              /\ IF p_attempt = 3
                   THEN /\ p_stage' = "raised"
                        /\ p_result' = ProcessRaise("ValueError")
                        /\ UNCHANGED p_attempt
                   ELSE /\ p_attempt' = p_attempt + 1
                        /\ p_stage' = "attempt"
                        /\ UNCHANGED p_result
    /\ UNCHANGED <<lockFrame0, lockVars, agentVars, p_llm, p_parses>>

NextProcess ==
    \/ \E response_content \in Texts, llm \in BOOLEAN : ProcessCall(response_content, llm)
    \/ ProcessAttempt
    \/ \E reply \in LlmReplies : ProcessRepair(reply)

\* one call of process_response
SpecProcess == InitProcess /\ [][NextProcess]_vars

\* ------------------------------------------------------------------ the condition's lock

lockFrame == <<lockFrame0, agentVars, processVars>>

\* request(), line 108: `with self._response_event` takes the lock
CondEnter(c) ==
    /\ lk_pc[c] = "posted"
    /\ cond_owner = "free"
    /\ cond_owner' = c
    /\ lk_pc' = [lk_pc EXCEPT ![c] = "test"]
    /\ UNCHANGED <<lockFrame, lk_hpc, lk_hid, lk_responses, lk_timed, lk_got, lk_early, lk_events>>

\* request(), line 109: wait_for evaluates `request_id in self._responses`;
\* it returns when that holds or the 30 s have passed, and otherwise waits,
\* which releases the lock
CondTest(c) ==
    /\ lk_pc[c] = "test"
    /\ IF RequestId(c) \in lk_responses \/ lk_timed[c]
         THEN /\ lk_pc' = [lk_pc EXCEPT ![c] = "pop"]
              /\ UNCHANGED cond_owner
         ELSE /\ lk_pc' = [lk_pc EXCEPT ![c] = "waiting"]
              /\ cond_owner' = "free"
    /\ UNCHANGED <<lockFrame, lk_hpc, lk_hid, lk_responses, lk_timed, lk_got, lk_early, lk_events>>

\* request(), line 109: a notified waiter takes the lock again
CondReacquire(c) ==
    /\ lk_pc[c] = "woken"
    /\ cond_owner = "free"
    /\ cond_owner' = c
    /\ lk_pc' = [lk_pc EXCEPT ![c] = "test"]
    /\ UNCHANGED <<lockFrame, lk_hpc, lk_hid, lk_responses, lk_timed, lk_got, lk_early, lk_events>>

\* request(), line 109: the 30 s pass, the waiter takes the lock again
CondTimeout(c) ==
    /\ lk_pc[c] \in {"waiting", "woken"}
    /\ cond_owner = "free"
    /\ cond_owner' = c
    /\ lk_timed' = [lk_timed EXCEPT ![c] = TRUE]
    /\ lk_pc' = [lk_pc EXCEPT ![c] = "test"]
    /\ UNCHANGED <<lockFrame, lk_hpc, lk_hid, lk_responses, lk_got, lk_early, lk_events>>

\* request(), line 110: self._responses.pop(request_id, None)
CondPop(c) ==
    /\ lk_pc[c] = "pop"
    /\ lk_got' = [lk_got EXCEPT ![c] = RequestId(c) \in lk_responses]
    /\ lk_responses' = lk_responses \ {RequestId(c)}
    /\ lk_pc' = [lk_pc EXCEPT ![c] = "exit"]
    /\ UNCHANGED <<lockFrame, cond_owner, lk_hpc, lk_hid, lk_timed, lk_early, lk_events>>

\* request(): the with block of lines 108-110 is left, the lock is released
CondExit(c) ==
    /\ lk_pc[c] = "exit"
    /\ cond_owner' = "free"
    /\ lk_pc' = [lk_pc EXCEPT ![c] = "done"]
    /\ UNCHANGED <<lockFrame, lk_hpc, lk_hid, lk_responses, lk_timed, lk_got, lk_early, lk_events>>

\* _handle_event going on to line 95 without the lock
HandleEnterNoLock(i) ==
    /\ lk_hpc = "idle"
    /\ lk_events > 0
    /\ lk_events' = lk_events - 1
    /\ lk_hid' = i
    /\ lk_hpc' = "store"
    /\ UNCHANGED <<lockFrame, cond_owner, lk_pc, lk_responses, lk_timed, lk_got, lk_early>>

\* _handle_event, line 94: an event with the id i has passed lines 83-93 and
\* `with self._response_event` takes the lock
HandleEnter(i) ==
    /\ lk_hpc = "idle"
    /\ lk_events > 0
    /\ cond_owner = "free"
    /\ cond_owner' = "listener"
    /\ lk_events' = lk_events - 1
    /\ lk_hid' = i
    /\ lk_hpc' = "store"
    /\ UNCHANGED <<lockFrame, lk_pc, lk_responses, lk_timed, lk_got, lk_early>>

\* _handle_event storing a payload only for a caller that is in its with block
HandleStoreForWaiters ==
    /\ lk_hpc = "store"
    /\ lk_responses' =
           IF \E c \in Callers : RequestId(c) = lk_hid /\ lk_pc[c] = "posted"
             THEN lk_responses
             ELSE lk_responses \cup {lk_hid}
    /\ lk_early' = [c \in Callers |->
                       lk_early[c] \/ (RequestId(c) = lk_hid /\ lk_pc[c] = "posted")]
    /\ lk_hpc' = "notify"
    /\ UNCHANGED <<lockFrame, cond_owner, lk_pc, lk_hid, lk_timed, lk_got, lk_events>>

\* _handle_event, line 95: self._responses[message_id] = payload
HandleStore ==
    /\ lk_hpc = "store"
    /\ lk_responses' = lk_responses \cup {lk_hid}
    /\ lk_early' = [c \in Callers |->
                       lk_early[c] \/ (RequestId(c) = lk_hid /\ lk_pc[c] = "posted")]
    /\ lk_hpc' = "notify"
    /\ UNCHANGED <<lockFrame, cond_owner, lk_pc, lk_hid, lk_timed, lk_got, lk_events>>

\* _handle_event, line 96: notify_all wakes every waiter
HandleNotify ==
    /\ lk_hpc = "notify"
    /\ lk_pc' = [c \in Callers |-> IF lk_pc[c] = "waiting" THEN "woken" ELSE lk_pc[c]]
    /\ lk_hpc' = "exit"
    /\ UNCHANGED <<lockFrame, cond_owner, lk_hid, lk_responses, lk_timed, lk_got, lk_early,
                   lk_events>>

\* _handle_event: the with block of lines 94-96 is left, the lock is released
HandleExit ==
    /\ lk_hpc = "exit"
    /\ cond_owner' = "free"
    /\ lk_hpc' = "idle"
    /\ UNCHANGED <<lockFrame, lk_pc, lk_hid, lk_responses, lk_timed, lk_got, lk_early, lk_events>>

NextLock ==
    \/ \E c \in Callers : CondEnter(c)
    \/ \E c \in Callers : CondTest(c)
    \/ \E c \in Callers : CondReacquire(c)
    \/ \E c \in Callers : CondTimeout(c)
    \/ \E c \in Callers : CondPop(c)
    \/ \E c \in Callers : CondExit(c)
    \/ \E i \in LockIds : HandleEnter(i)
    \/ HandleStore
    \/ HandleNotify
    \/ HandleExit

SpecLock == InitLock /\ [][NextLock]_vars

\* ------------------------------------------------------------------ specification

\* the steps of a request() that one thread alone can take
RequestStep(c) ==
    \/ StartCheck(c)
    \/ StartCreate(c)
    \/ StartThread(c)
    \/ PostOk(c)
    \/ PostFail(c)
    \/ WaitExit(c)
    \/ RaiseTimeout(c)
    \/ RaiseRemote(c)
    \/ ReturnResult(c)

\* every step of a request(), the one of a lost race in start() too
CallerStep(c) == RequestStep(c) \/ StartThreadRaise(c)

\* the steps of the client's threads, the server answering with `shapes`
Steps(shapes) ==
    \/ \E c \in Callers : BeginListTools(c)
    \/ \E c \in Callers : BeginCallTool(c)
    \/ \E c \in Callers : RequestStep(c)
    \/ \E l \in ReceiveThreads : HandleNonJson(l)
    \/ \E l \in ReceiveThreads : HandleNonObject(l)
    \/ \E l \in ReceiveThreads : \E e \in EndpointEvents : HandleEndpoint(l, e)
    \/ \E l \in ReceiveThreads : \E e \in NoIdEvents : HandleNoId(l, e)
    \/ \E l \in ReceiveThreads : \E e \in ResponseEvents(shapes) : HandleResponse(l, e)
    \/ \E l \in ReceiveThreads : ListenFail(l)

Next ==
    \/ Steps(BasicShapes)
    \/ \E c \in Callers : StartThreadRaise(c)

NextSeq == Steps(AllShapes)

\* the threads of Callers share one client
Spec == Init /\ [][Next]_vars

\* the same, and a caller thread that can take a step of request() takes it in
\* the end: _post_message returns or raises by its timeout of 30 s, wait_for
\* returns by its timeout of 30 s, and the lock is held for single statements
FairSpec == InitFair /\ [][Next]_vars /\ \A c \in Callers : WF_vars(CallerStep(c))

\* one thread makes its calls one after another
SpecSeq == InitSeq /\ [][NextSeq]_vars

NextClose ==
    \/ Steps(BasicShapes)
    \/ CloseSetStop
    \/ CloseJoin
    \/ CloseSession
    \/ \E l \in ReceiveThreads : LoopStop(l)

\* one thread makes its calls on a client that another thread closes
SpecClose == InitClose /\ [][NextClose]_vars

NextEvents ==
    \/ Steps(BasicShapes)
    \/ \E l \in ReceiveThreads : \E e \in KeyedEvents : HandleEndpoint(l, e)
    \/ \E l \in ReceiveThreads : \E e \in KeyedEvents : HandleNoId(l, e)
    \/ \E l \in ReceiveThreads : \E e \in KeyedEvents : HandleResponse(l, e)

\* one thread makes a call while the server sends bodies of every kind
SpecEvents == InitEvents /\ [][NextEvents]_vars

\* one call on a client that another thread closes, where a receive loop that
\* runs with the stop event set comes to line 67 (the server sends a line, or
\* the read of the stream times out)
FairSpecClose ==
    InitCloseOnce /\ [][NextClose]_vars /\ \A l \in ReceiveThreads : WF_vars(LoopStop(l))

NextE2E ==
    \/ \E tool \in LocalTools : Publish(tool)
    \/ \E sch \in SignatureSchemas : ListTools(<<sch>>)
    \/ BuildToolset
    \/ \E i \in DOMAIN e_built : \E args \in ArgMaps : InvokeTool(i, args)

\* a tool is published, the toolset is built against the server and one of its
\* tools is invoked
SpecE2E == InitE2E /\ [][NextE2E]_vars

NextRemote ==
    \/ \E tool_defs \in SeqsUpTo(ServerDescriptors, MaxTools) : ListDescriptors(tool_defs)
    \/ BuildToolset
    \/ \E i \in DOMAIN e_built : \E args \in ArgMaps : CallRemote(i, args)

\* a toolset is built against some MCP server and one of its tools is invoked
SpecRemote == InitE2E /\ [][NextRemote]_vars

NextAgents ==
    \/ \E toolsets \in SeqsUpTo(GivenToolsets, MaxTools) : RegistryConstruct(toolsets)
    \/ FindPromoTool

\* a registry is constructed from some toolsets, as build_agents does it, and
\* the promotion tool is looked up
SpecAgents == InitRegistry /\ [][NextAgents]_vars

NextUnwrap == CallToolReturn

\* call_tool's unwrapping of every result object of UnwrapInputs
SpecUnwrap == InitUnwrap /\ [][NextUnwrap]_vars

NextSchema == SchemaTranslate

\* _schema_to_pydantic on every schema of Schemas
SpecSchema == InitSchema /\ [][NextSchema]_vars

NextToolset ==
    \/ \E ts \in SeqsUpTo(ToolObjects, MaxTools) : ToolsetConstruct(ts)
    \/ \E tool \in ToolObjects : RegisterToolNameless(tool)
    \/ \E tool \in ToolObjects : RegisterTool(tool)

\* one Toolset: its construction, then register_tool calls
SpecToolset == InitToolset /\ [][NextToolset]_vars

NextRegistry == \E toolset \in Toolsets : Register(toolset)

\* one ToolsetRegistry: register calls
SpecRegistry == InitRegistry /\ [][NextRegistry]_vars

\* ------------------------------------------------------------------ claims

\* envelopes a step delivers to the server
NewlyPosted == posted' \ posted

\* a call is outstanding from the delivery of its envelope to the end of its wait
Outstanding(i) == \E c \in Callers : pc[c] = "wait" /\ rid[c] = i

\* the caller's request() ends in this step
RequestEnds(c) == pc[c] \in {"post", "check"} /\ pc'[c] \in {"idle", "start"}

\* C1: with calls running at once and responses arriving in any order, the
\* response a call takes out of the map carries the id the call generated, and
\* every entry of the map is filed under the id of its payload
C1_ResponseMatchesCaller ==
    /\ \A c \in Callers : resp[c] # NoResponse => resp[c].id = rid[c]
    /\ \A k \in DOMAIN responses : responses[k].id = k

\* two calls are out, the responses came in the reverse order of the requests,
\* and the later call holds its response while the earlier one's is in the map
C1_Witness ==
    \E c, d \in Callers :
        /\ c # d
        /\ pc[c] = "check" /\ resp[c] # NoResponse
        /\ pc[d] = "wait" /\ rid[d] < rid[c] /\ rid[d] \in DOMAIN responses

\* C2: a call whose wait timed out raises TimeoutError naming its method, and
\* when it raises the map has no entry for its id
C2_TimeoutLeavesNoEntry ==
    [][\A c \in Callers :
          RaiseTimeout(c) =>
              /\ outcome'[c].kind = "timeout"
              /\ outcome'[c].msg = method[c]
              /\ rid[c] \notin DOMAIN responses]_vars

\* C3: dispatching a response whose id belongs to no outstanding call leaves
\* the response map unchanged
C3_StaleResponseDropped ==
    [][\A l \in ReceiveThreads : \A e \in ResponseEvents(AllShapes) :
          (HandleResponse(l, e) /\ ~Outstanding(e.id)) => UNCHANGED responses]_vars

\* C4: while the client is not initialized no tools/call envelope reaches the
\* server
C4_CallToolRejectedBeforeInitialize ==
    [][~initialized => \A e \in NewlyPosted : e.method # "tools/call"]_vars

\* C5: with list_tools() called one call after another, at most one initialize
\* request returns a result, and once the client is initialized no initialize
\* envelope is sent
C5_InitializeOnce ==
    /\ [](initOk <= 1)
    /\ [][initialized => \A e \in NewlyPosted : e.method # "initialize"]_vars

\* a second list_tools() sent tools/list on the initialized client
C5_Witness ==
    /\ initialized
    /\ initOk = 1
    /\ Cardinality({e \in posted : e.method = "tools/list"}) >= 2

\* C6: tools/list is sent only by a client whose initialize request returned a
\* result; a list_tools() whose initialize fails (timeout, remote error, failed
\* post) ends there, and neither sends anything more nor sets the flag
C6_ListAfterInitialize ==
    /\ [][\A e \in NewlyPosted : e.method = "tools/list" => initialized /\ initOk >= 1]_vars
    /\ [][\A c \in Callers :
            (op[c] = "list_tools" /\ method[c] = "initialize"
                /\ (PostFail(c) \/ RaiseTimeout(c) \/ RaiseRemote(c)))
            => (pc'[c] = "idle" /\ posted' = posted /\ initialized' = initialized)]_vars

\* a list_tools() ended by the timeout of its initialize and the client is not
\* initialized
C6_Witness ==
    \E c \in Callers :
        /\ pc[c] = "idle"
        /\ outcome[c].kind = "timeout" /\ outcome[c].msg = "initialize"
        /\ ~initialized
        /\ \A e \in posted : e.method # "tools/list"

\* C7: a request() that took a response with an error field raises, with the
\* server's message when there is one, and returns nothing; one that took a
\* response without an error field returns its result field ({} without one)
C7_ErrorRaisedResultReturned ==
    [][\A c \in Callers :
          (pc[c] = "check" /\ resp[c] # NoResponse /\ RequestEnds(c)) =>
              IF resp[c].err # ErrAbsent
                THEN /\ outcome'[c].kind = "remote"
                     /\ resp[c].err \in ErrMessages => outcome'[c].msg = resp[c].err
                ELSE /\ outcome'[c].kind = "result"
                     /\ resp[c].res.present => outcome'[c].val = resp[c].res.obj
                     /\ ~resp[c].res.present => outcome'[c].val = EmptyResult]_vars

\* a call was ended by the server's error message
C7_Witness ==
    \E c \in Callers : outcome[c].kind = "remote" /\ outcome[c].msg \in ErrMessages

\* C8 as stated: every request() ends (its caller is outside request() again
\* and again), and by a result, a remote error or a TimeoutError
C8_EndsByResultRemoteOrTimeout ==
    /\ [](\A c \in Callers : outcome[c].kind \in {"none", "result", "remote", "timeout"})
    /\ \A c \in Callers : []<>(pc[c] = "idle")

\* C8 amended: every request() ends, by a result, a remote error, a
\* TimeoutError, the error of a failed post or the RuntimeError of a start()
\* that lost the race for the thread, also when every receive thread is gone
\* and no response comes
C8_EveryRequestEnds ==
    /\ [](\A c \in Callers :
            outcome[c].kind \in {"none", "result", "remote", "timeout", "transport", "start"})
    /\ \A c \in Callers : []<>(pc[c] = "idle")

\* a call ended by its timeout with no receive thread running
C8_Witness ==
    \E c \in Callers :
        /\ outcome[c].kind = "timeout"
        /\ thread = "dead" /\ orphans = 0
        /\ responses = <<>>

\* the text of the first item of the result's content, when it is a string
HasText(r) ==
    /\ r.content.kind = "list"
    /\ r.content.items # <<>>
    /\ r.content.items[1].kind = "dict"
    /\ r.content.items[1].isstr
FirstText(r) == r.content.items[1].text

\* C9: call_tool gives back the decoded value when the first item of a
\* non-empty content list has a text that is JSON, the text itself when it is
\* no JSON, and the result object when content is absent or empty; the text
\* {"x":1} gives the mapping of x to 1
C9_UnwrapsContent ==
    ustage = "returned" =>
        /\ HasText(uresult) /\ JsonLoads(FirstText(uresult)).ok
              => uret = RetJson(JsonLoads(FirstText(uresult)).val)
        /\ HasText(uresult) /\ ~JsonLoads(FirstText(uresult)).ok
              => uret = RetText(FirstText(uresult))
        /\ uresult.content.kind = "absent" \/ uresult.content = ContentOf(<<>>)
              => uret = RetResult(uresult)
        /\ HasText(uresult) /\ FirstText(uresult) = <<"{", Quote, "x", Quote, ":", "1", "}">>
              => uret.json = JObj(<<Member(<<"x">>, JNum(1))>>)

\* call_tool gave back a decoded object with a member
C9_Witness ==
    /\ ustage = "returned"
    /\ uret.tag = "json"
    /\ uret.json.t = "obj"
    /\ uret.json.m # <<>>

\* C10: the contract has the schema's properties; a property is required
\* exactly when the required list names it, otherwise it is optional with the
\* default None; and its type is the one mapped from the declared type
C10_ContractFromSchema ==
    sstage = "returned" =>
        /\ DOMAIN contract = DOMAIN schema.properties
        /\ \A p \in DOMAIN schema.properties :
              /\ contract[p].required <=> \E i \in DOMAIN schema.required : schema.required[i] = p
              /\ ~contract[p].required => contract[p].default = NoneDefault
              /\ schema.properties[p] = "string" => contract[p].type = "str"
              /\ schema.properties[p] = "integer" => contract[p].type = "int"
              /\ schema.properties[p] = "number" => contract[p].type = "float"
              /\ schema.properties[p] = "boolean" => contract[p].type = "bool"
              /\ schema.properties[p] = "array" => contract[p].type = "list"
              /\ schema.properties[p] = "object" => contract[p].type = "dict"

\* the schema {"properties": {"a": string, "b": integer}, "required": ["a"]}
\* was translated: a is a required str, b an optional int
C10_Witness ==
    /\ sstage = "returned"
    /\ schema.required = <<"a">>
    /\ DOMAIN schema.properties = {"a", "b"}
    /\ schema.properties["a"] = "string" /\ schema.properties["b"] = "integer"
    /\ contract["a"].required /\ contract["a"].type = "str"
    /\ ~contract["b"].required /\ contract["b"].type = "int"

\* C11: a property whose type declaration is missing, or is none of the six
\* known type names, is translated to the unspecified type (Any)
C11_MissingOrUnknownTypeIsAny ==
    sstage = "returned" =>
        \A p \in DOMAIN schema.properties :
            schema.properties[p] \notin KnownTypes => contract[p].type = "Any"

\* the toolset has a tool of that name in its tools
Contains(toolset, tool_name) ==
    \E j \in DOMAIN toolset.tools : toolset.tools[j].name = tool_name
\* the register calls, by position, whose toolset had a tool of that name
RegisteredWith(tool_name) ==
    {i \in DOMAIN registered : Contains(registered[i], tool_name)}
Latest(S) == CHOOSE i \in S : \A k \in S : k <= i

\* C12: after any register calls find_tool(name) returns the tool of that name
\* of the toolset registered last among those that contain one (KeyError when
\* none does), and a register call that replaces a registered tool name logs
\* a warning for it
C12_LastRegistrationWins ==
    /\ [](\A n \in ToolNames :
            IF RegisteredWith(n) = {}
              THEN FindTool(n) = KeyError
              ELSE LET last == registered[Latest(RegisteredWith(n))]
                   IN  /\ FindTool(n) = GetTool(last.lookup, n)
                       /\ FindTool(n) \in Range(last.tools)
                       /\ FindTool(n).name = n)
    /\ [][\A toolset \in Toolsets : Register(toolset) =>
            \A n \in ToolNames :
                (DictHas(r_tools, n) /\ Contains(toolset, n)) =>
                    CollisionWarning(n) \in Range(r_log')]_vars

\* two toolsets with a get_data tool each were registered: find_tool returns
\* the second one's, and the second call logged the collision
C12_Witness ==
    /\ Len(registered) = 2
    /\ registered[1].tools = <<Tool("get_data", 1), Tool("get_promo_period", 3)>>
    /\ registered[2].tools = <<Tool("get_data", 2)>>
    /\ registered[1].name # registered[2].name
    /\ FindTool("get_data") = Tool("get_data", 2)
    /\ r_log = <<CollisionWarning("get_data")>>

\* the names of the tools of the registered toolsets, call after call and tool
\* after tool
RECURSIVE Flattened(_)
Flattened(regs) ==
    IF regs = <<>> THEN <<>>
    ELSE Flattened(SubSeq(regs, 1, Len(regs) - 1))
            \o [j \in DOMAIN regs[Len(regs)].tools |-> regs[Len(regs)].tools[j].name]
\* a sequence without the later occurrences of its elements and without NoName
RECURSIVE FirstOccurrences(_)
FirstOccurrences(names) ==
    IF names = <<>> THEN <<>>
    ELSE LET before == FirstOccurrences(SubSeq(names, 1, Len(names) - 1))
             n == names[Len(names)]
         IN  IF n = NoName \/ n \in Range(before) THEN before ELSE Append(before, n)

\* C13: after any register calls all_tools() lists one tool per registered
\* tool name, the tool find_tool returns for the name, the names in the order
\* in which they were registered first
C13_AllToolsOnePerName ==
    LET names == FirstOccurrences(Flattened(registered))
    IN  /\ Len(AllTools) = Len(names)
        /\ \A i \in DOMAIN AllTools :
              /\ AllTools[i].name = names[i]
              /\ AllTools[i] = FindTool(names[i])
        /\ \A i, j \in DOMAIN AllTools : i # j => AllTools[i].name # AllTools[j].name

\* get_data, get_promo_period, then get_data again from a second toolset:
\* all_tools lists the second get_data first
C13_Witness ==
    /\ Len(registered) = 2
    /\ registered[1].tools = <<Tool("get_data", 1), Tool("get_promo_period", 3)>>
    /\ registered[2].tools = <<Tool("get_data", 2)>>
    /\ AllTools = <<Tool("get_data", 2), Tool("get_promo_period", 3)>>

\* C14: in every state of a Toolset, after its construction and after any
\* register_tool calls, no two entries of tools have the same name and
\* get_tool(name) returns the entry of tools that has the name
C14_ToolNamesUnique ==
    t_stage = "built" =>
        /\ \A i, j \in DOMAIN t_tools :
              (i # j /\ t_tools[i].name # NoName) => t_tools[i].name # t_tools[j].name
        /\ \A i \in DOMAIN t_tools :
              t_tools[i].name # NoName => GetTool(t_lookup, t_tools[i].name) = t_tools[i]

\* C15: once the receive loop has ended by a stream error, the client never
\* opens the event stream again (no event was dispatched, so the loop the
\* thread ran ended in ListenFail)
C15_NoReconnectAfterStreamError ==
    [][(thread = "dead" /\ eventsLeft = MaxEvents) => thread' = "dead"]_vars

\* C16: a request() made while no endpoint announcement has been applied
\* (the path is still the one __init__ set) fails and posts no envelope
C16_NoPostBeforeAnnouncement ==
    [][\A c \in Callers :
          (pc[c] = "post" /\ messages_url = DefaultMessagesUrl /\ pc'[c] # "post") =>
              /\ posted' = posted
              /\ outcome'[c].kind = "transport"]_vars

\* the receive threads running
RunningThreads == (IF thread = "alive" THEN 1 ELSE 0) + orphans

\* C19: at any time at most one receive thread is running for the client, also
\* when several callers are in request() (and start()) at once
C19_AtMostOneReceiveThread == RunningThreads <= 1

\* C20: an event body that is no JSON, or JSON that is no object, is
\* discarded and the receive loop that read it keeps running
C20_MalformedEventNotFatal ==
    [][\A l \in ReceiveThreads :
          (HandleNonJson(l) \/ HandleNonObject(l)) => RunningThreads' = RunningThreads]_vars

C18_AddEndToEnd ==
    (/\ e_stage = "invoked"
     /\ Len(e_published) = 1
     /\ e_published[1].tool.name = "add"
     /\ e_args = [a |-> 2, b |-> 3]) =>
        /\ Len(e_built) = 1
        /\ e_built[1].name = "add"
        /\ DOMAIN e_built[1].contract = {"a", "b"}
        /\ \A p \in DOMAIN e_built[1].contract :
              e_built[1].contract[p].type = "int" /\ e_built[1].contract[p].required
        /\ e_result = RetJson(JNum(5))

\* C21: every test of, insertion into and removal from self._responses is made
\* by a thread that holds the condition's lock, so at most one thread is at
\* such a step at a time
InMapAccess ==
    {c \in Callers : lk_pc[c] \in {"test", "pop", "exit"}}
        \cup (IF lk_hpc \in {"store", "notify", "exit"} THEN {"listener"} ELSE {})
C21_MapAccessUnderLock ==
    /\ \A x \in InMapAccess : cond_owner = x
    /\ Cardinality(InMapAccess) <= 1
\* C21: the receive thread stores a payload while one caller waits and the
\* other has popped its response
C21_Witness ==
    /\ lk_hpc = "store"
    /\ \E c \in Callers : lk_pc[c] = "waiting"
    /\ \E c \in Callers : lk_got[c]

\* C22: once self._messages_url has left its initial value no event changes it
C22_PathChangesAtMostOnce ==
    [][messages_url # DefaultMessagesUrl => messages_url' = messages_url]_vars

\* _handle_event is run on the object e by the receive thread l
EventStep(l, e) == HandleEndpoint(l, e) \/ HandleNoId(l, e) \/ HandleResponse(l, e)

\* C23 as stated: a body that has the key url only sets the path to that url,
\* a body that has the key id and not the key url is filed under its id, and a
\* body with neither key changes nothing of the client
C23_UrlKeyOnlyUpdatesPath ==
    [][\A l \in ReceiveThreads : \A e \in KeyedEvents :
          EventStep(l, e) =>
            /\ e.urlKey => (messages_url' = e.url /\ responses' = responses)
            /\ (~e.urlKey /\ e.idKey) =>
                  (responses' = MapPut(responses, e.id, e) /\ messages_url' = messages_url)
            /\ (~e.urlKey /\ ~e.idKey) => UNCHANGED clientVars]_vars
\* C23 amended: a body with a true url value only sets the path to that url and
\* is not filed, whatever id it carries; a body with a true id and no true url
\* is filed under its id; any other object changes nothing of the client
C23_TrueUrlOnlyUpdatesPath ==
    [][\A l \in ReceiveThreads : \A e \in KeyedEvents :
          EventStep(l, e) =>
            /\ e.url # NoUrl => (messages_url' = e.url /\ responses' = responses)
            /\ (e.url = NoUrl /\ e.id # 0) =>
                  (responses' = MapPut(responses, e.id, e) /\ messages_url' = messages_url)
            /\ (e.url = NoUrl /\ e.id = 0) => UNCHANGED clientVars]_vars
\* C23: the path was announced while a call was waiting, and nothing was filed
\* under the id of that call
C23_Witness ==
    /\ messages_url \in ReannouncedUrls
    /\ \E c \in Callers : pc[c] = "wait" /\ rid[c] \notin DOMAIN responses
    /\ eventsLeft < MaxEvents

\* C24: with the stop event set no event is dispatched (nothing is consumed
\* from the stream, filed in the map or applied to the path), and every
\* receive loop that runs comes to its end
C24_StopEndsDispatch ==
    /\ [][stop_event =>
            /\ eventsLeft' = eventsLeft
            /\ messages_url' = messages_url
            /\ DOMAIN responses' \subseteq DOMAIN responses]_vars
    /\ [](stop_event => <>(\A l \in ReceiveThreads : ~Running(l)))
\* C24: close() has returned, the loop has ended with events of the server
\* left undispatched and a caller still waits for its response
C24_Witness ==
    /\ stop_event
    /\ closed > 0
    /\ thread = "dead"
    /\ eventsLeft > 0
    /\ \E c \in Callers : pc[c] = "wait"

\* C25 as stated: the tools/call of an invocation carries the name of the
\* descriptor the invoked tool was built from and the arguments of the
\* invocation
C25_CallsOwnNameWithGivenArguments ==
    (e_stage = "invoked" /\ e_call # NoCall) =>
        /\ e_call.name = e_listed[e_call.tool].name
        /\ e_call.arguments = e_args
\* C25 amended: it carries the name of that descriptor and those arguments of
\* the invocation that the descriptor's input schema names
C25_CallsOwnNameWithNamedArguments ==
    (e_stage = "invoked" /\ e_call # NoCall) =>
        /\ e_call.name = e_listed[e_call.tool].name
        /\ DOMAIN e_call.arguments =
              DOMAIN e_args \cap DOMAIN e_listed[e_call.tool].inputSchema.properties
        /\ \A p \in DOMAIN e_call.arguments : e_call.arguments[p] = e_args[p]
\* C25: of two tools with different names the first is invoked with two
\* arguments, and both are sent
C25_Witness ==
    /\ e_stage = "invoked"
    /\ Len(e_built) = 2
    /\ e_listed[1].name # e_listed[2].name
    /\ e_call.tool = 1
    /\ DOMAIN e_call.arguments = {"a", "b"}

\* C26: a caller whose response was stored after it had posted and before it
\* took the condition's lock gets that response from its pop
C26_EarlyResponseReturned ==
    \A c \in Callers :
        (lk_pc[c] \in {"exit", "done"} /\ lk_early[c]) => lk_got[c]
\* C26: a caller got a response that was stored before it took the lock, and
\* neither waited out its 30 s nor was woken for it
C26_Witness ==
    \E c \in Callers :
        lk_pc[c] = "done" /\ lk_early[c] /\ lk_got[c] /\ ~lk_timed[c]

\* C27: of the initialize requests the callers have sent, at most one is
\* outstanding or has returned a result (one that failed may be sent again)
InitializeOutstanding ==
    {c \in Callers : method[c] = "initialize" /\ pc[c] \in {"wait", "check"}}
C27_InitializeSentOnce == Cardinality(InitializeOutstanding) + initOk <= 1

\* C28: every tool all_tools lists (the tools find_tool returns) is in the tools
\* of a toolset that get_toolset returns
Retrievable == {GetToolset(nm) : nm \in {n \in ToolsetNames : DictHas(r_toolsets, n)}}
C28_ToolsOfRetrievableToolsets ==
    \A i \in DOMAIN AllTools :
        \E toolset \in Retrievable :
            \E j \in DOMAIN toolset.tools : toolset.tools[j] = AllTools[i]

\* C29: the registry made from the toolsets of build_salesforce_toolset and
\* build_sap_business_one_toolset is constructed without an exception, holds
\* every tool of both, and find_tool("get_promo_period") gives the Salesforce
\* toolset's tool of that name
C29_BuildAgentsRegistry ==
    (a_stage # "idle" /\ a_given = <<SalesforceToolset, SapToolset>>) =>
        /\ r_raised = NoRaise
        /\ \A i \in DOMAIN SalesTools : FindTool(SalesTools[i].name) = SalesTools[i]
        /\ \A i \in DOMAIN InventoryTools :
              FindTool(InventoryTools[i].name) = InventoryTools[i]
        /\ a_stage = "found" => a_promo = SalesTools[2]

\* C30 as stated: process_response makes at most three parse attempts and at most
\* three repair calls, returns the value of the attempt that parsed, raises
\* ValueError whenever it raises, and without an llm raises after the first
\* failed attempt without a repair call
ProcessBounded ==
    /\ p_parses <= 3
    /\ p_repairs <= 3
    /\ p_stage = "returned" =>
          /\ ParseAttempt(p_content).ok
          /\ p_result = ProcessReturn(ParseAttempt(p_content).val)
          /\ p_parses = p_repairs + 1
    /\ ~p_llm => p_repairs = 0 /\ p_parses <= 1
    /\ (~p_llm /\ p_stage = "raised") => p_parses = 1 /\ p_result = ProcessRaise("ValueError")
C30_RaisesValueError ==
    ProcessBounded /\ (p_stage = "raised" => p_result = ProcessRaise("ValueError"))

\* C30, amended: process_response ends (every step of a call adds to the attempts
\* and repair calls made, which are never more than six), after at most three parse attempts and
\* at most three repair calls; it returns the value of the first attempt that
\* parsed; without an llm it raises ValueError after the first failed attempt
\* and no repair call; with an llm it raises ValueError only after three failed
\* attempts and three repair calls, and otherwise leaves with the exception of
\* llm.invoke or with the TypeError of a repaired content that is no string
ProcessRaises ==
    p_stage = "raised" =>
        \/ p_result = ProcessRaise("ValueError") /\ ~p_llm /\ p_parses = 1 /\ p_repairs = 0
        \/ p_result = ProcessRaise("ValueError") /\ p_llm /\ p_parses = 3 /\ p_repairs = 3
        \/ p_result = ProcessRaise("LlmError") /\ p_llm /\ p_repairs = p_parses
        \/ /\ p_result = ProcessRaise("TypeError")
           /\ p_llm /\ p_content = NotText /\ p_parses = p_repairs + 1 /\ p_repairs >= 1
ProcessSteps == p_parses + p_repairs
ProcessAdvances ==
    /\ p_stage # "idle" => p_stage \in {"attempt", "repair"} /\ ProcessSteps' = ProcessSteps + 1
    /\ ProcessSteps' <= 6
    /\ p_stage' = "repair" => p_llm'
C30_EndsWithinThreeAttempts ==
    /\ [](ProcessBounded /\ ProcessRaises)
    /\ [][ProcessAdvances]_vars

\* C30 witness: the third attempt parsed what the second repair call returned
C30_Witness ==
    /\ p_stage = "returned"
    /\ p_parses = 3
    /\ p_repairs = 2
    /\ p_result = ProcessReturn(JNum(1))

====
